---- MODULE Spec2Model ----
(***************************************************************************)
(* Model of the x86Tester per-instruction test generator (cli/main.cpp):   *)
(* register/flag analysis, the target bit matrix, input staging, the       *)
(* bounded search loop of testInstruction and the sort/unique pass of      *)
(* generateInstructionTestData.                                            *)
(*                                                                         *)
(* A register buffer is a sequence of bytes (0..255), least significant    *)
(* byte first; sequence index k+1 holds the byte at C++ offset k.          *)
(* An EFLAGS value or flag mask is the set of its set bit positions        *)
(* (a subset of 0..31); FlagsValue gives the 32-bit number.                *)
(***************************************************************************)
EXTENDS Integers, Sequences, FiniteSets, TLC

\* ---------------------------------------------------------------------------
\* Bounds of the model
\* ---------------------------------------------------------------------------

\* kAbortTestCaseThreshold is 100'000 in the program; the model runs the same
\* loop with a scaled-down threshold.
kAbortTestCaseThreshold == 3

\* Number of times the execution context may report a status outside
\* {Success, ExceptionIntDivideError, ExceptionIntOverflow, IllegalInstruction}
\* while one encoding is tested.
MaxOtherFaults == 1

\* ---------------------------------------------------------------------------
\* EFLAGS bits (Zydis ZYDIS_CPUFLAG_*), as bit positions
\* ---------------------------------------------------------------------------
ZYDIS_CPUFLAG_CF == 0
ZYDIS_CPUFLAG_PF == 2
ZYDIS_CPUFLAG_AF == 4
ZYDIS_CPUFLAG_ZF == 6
ZYDIS_CPUFLAG_SF == 7
ZYDIS_CPUFLAG_TF == 8
ZYDIS_CPUFLAG_IF == 9
ZYDIS_CPUFLAG_OF == 11

RECURSIVE FlagsValue(_)
FlagsValue(s) ==
    IF s = {} THEN 0
    ELSE LET i == CHOOSE x \in s : TRUE IN 2 ^ i + FlagsValue(s \ {i})

\* ---------------------------------------------------------------------------
\* Register metadata (decoder library)
\* ---------------------------------------------------------------------------
Regs ==
    { "NONE", "AL", "CL", "AH", "CH", "AX", "CX", "EAX", "ECX", "RAX", "RCX",
      "XMM0", "XMM1", "YMM0", "YMM1", "ZMM0", "ZMM1",
      "FLAGS", "EFLAGS", "RFLAGS", "IP", "EIP", "RIP" }

\* Position of a register in the ZydisRegister enumeration (only the order
\* matters: flat sets and flat maps keyed by register iterate in this order).
RegId(reg) ==
    CASE reg = "NONE" -> 0
      [] reg = "AL" -> 1   [] reg = "CL" -> 2   [] reg = "AH" -> 5   [] reg = "CH" -> 6
      [] reg = "AX" -> 21  [] reg = "CX" -> 22
      [] reg = "EAX" -> 37 [] reg = "ECX" -> 38
      [] reg = "RAX" -> 53 [] reg = "RCX" -> 54
      [] reg = "XMM0" -> 88  [] reg = "XMM1" -> 89
      [] reg = "YMM0" -> 120 [] reg = "YMM1" -> 121
      [] reg = "ZMM0" -> 152 [] reg = "ZMM1" -> 153
      [] reg = "FLAGS" -> 192 [] reg = "EFLAGS" -> 193 [] reg = "RFLAGS" -> 194
      [] reg = "IP" -> 195 [] reg = "EIP" -> 196 [] reg = "RIP" -> 197

ZydisRegisterGetClass(reg) ==
    CASE reg \in {"AL", "CL", "AH", "CH"} -> "GPR8"
      [] reg \in {"AX", "CX"} -> "GPR16"
      [] reg \in {"EAX", "ECX"} -> "GPR32"
      [] reg \in {"RAX", "RCX"} -> "GPR64"
      [] reg \in {"XMM0", "XMM1"} -> "XMM"
      [] reg \in {"YMM0", "YMM1"} -> "YMM"
      [] reg \in {"ZMM0", "ZMM1"} -> "ZMM"
      [] reg \in {"FLAGS", "EFLAGS", "RFLAGS"} -> "FLAGS"
      [] reg \in {"IP", "EIP", "RIP"} -> "IP"
      [] OTHER -> "INVALID"

\* Width in bits, 64-bit machine mode.
ZydisRegisterGetWidth(reg) ==
    CASE reg \in {"AL", "CL", "AH", "CH"} -> 8
      [] reg \in {"AX", "CX", "FLAGS", "IP"} -> 16
      [] reg \in {"EAX", "ECX", "EFLAGS", "EIP"} -> 32
      [] reg \in {"RAX", "RCX", "RFLAGS", "RIP"} -> 64
      [] reg \in {"XMM0", "XMM1"} -> 128
      [] reg \in {"YMM0", "YMM1"} -> 256
      [] reg \in {"ZMM0", "ZMM1"} -> 512
      [] OTHER -> 0

\* Largest enclosing register, 64-bit machine mode.
ZydisRegisterGetLargestEnclosing(reg) ==
    CASE reg \in {"AL", "AH", "AX", "EAX", "RAX"} -> "RAX"
      [] reg \in {"CL", "CH", "CX", "ECX", "RCX"} -> "RCX"
      [] reg \in {"XMM0", "YMM0", "ZMM0"} -> "ZMM0"
      [] reg \in {"XMM1", "YMM1", "ZMM1"} -> "ZMM1"
      [] reg \in {"FLAGS", "EFLAGS", "RFLAGS"} -> "RFLAGS"
      [] reg \in {"IP", "EIP", "RIP"} -> "RIP"
      [] OTHER -> "NONE"

\* ---------------------------------------------------------------------------
\* Byte and bit helpers
\* ---------------------------------------------------------------------------
Bit(n, i) == (n \div (2 ^ i)) % 2

Fill(b, n) == [k \in 1..n |-> b]

\* Little-endian bytes of a value, n bytes.
ToBytes(v, n) == [k \in 1..n |-> (v \div (256 ^ (k - 1))) % 256]

RECURSIVE FromBytes(_)
FromBytes(bs) ==
    IF bs = <<>> THEN 0 ELSE Head(bs) + 256 * FromBytes(Tail(bs))

\* memcpy(dst + off, src, n): dst with src[0..n) written at byte offset off.
Splice(dst, off, src, n) ==
    [k \in 1..Len(dst) |-> IF k > off /\ k <= off + n THEN src[k - off] ELSE dst[k]]

\* Little-endian bytes of an EFLAGS value held as a set of bit positions.
RECURSIVE ByteOfFlags(_, _)
ByteOfFlags(s, k) ==
    IF s = {} THEN 0
    ELSE LET i == CHOOSE x \in s : TRUE
         IN (IF i \div 8 = k THEN 2 ^ (i % 8) ELSE 0) + ByteOfFlags(s \ {i}, k)

FlagsBytes(s, n) == [k \in 1..n |-> ByteOfFlags(s, k - 1)]

\* ---------------------------------------------------------------------------
\* Decoded instructions (ZydisDisassembledInstruction), the encodings tested
\* ---------------------------------------------------------------------------
UnusedOp ==
    [type |-> "UNUSED", reg |-> "NONE", actions |-> {}, imm |-> 0,
     base |-> "NONE", index |-> "NONE", scale |-> 0, disp |-> 0]

RegOp(r, acts) == [UnusedOp EXCEPT !.type = "REGISTER", !.reg = r, !.actions = acts]

ImmOp(v) == [UnusedOp EXCEPT !.type = "IMMEDIATE", !.imm = v, !.actions = {"READ"}]

MemOp(b, i, s, d) ==
    [UnusedOp EXCEPT !.type = "MEMORY", !.base = b, !.index = i, !.scale = s,
                     !.disp = d, !.actions = {"READ"}]

NoFlags == [modified |-> {}, set_0 |-> {}, set_1 |-> {}, tested |-> {}]

MkInstr(m, ops, fl, ow) ==
    [mnemonic |-> m, operands |-> ops, operand_count |-> Len(ops),
     cpu_flags |-> fl, operand_width |-> ow, address_width |-> 64]

\* MOV AH, 0xA5
InstrMovAhImm ==
    MkInstr("MOV", << RegOp("AH", {"WRITE"}), ImmOp(165) >>, NoFlags, 8)

\* MOV EAX, 0x00C0FFEE
InstrMovEaxImm ==
    MkInstr("MOV", << RegOp("EAX", {"WRITE"}), ImmOp(12648430) >>, NoFlags, 32)

\* CMC
InstrCmc ==
    MkInstr("CMC", << RegOp("RFLAGS", {"READ", "WRITE"}) >>,
            [NoFlags EXCEPT !.modified = {ZYDIS_CPUFLAG_CF}, !.tested = {ZYDIS_CPUFLAG_CF}], 32)

\* CLC
InstrClc ==
    MkInstr("CLC", << RegOp("RFLAGS", {"WRITE"}) >>,
            [NoFlags EXCEPT !.set_0 = {ZYDIS_CPUFLAG_CF}], 32)

\* SETZ AL
InstrSetzAl ==
    MkInstr("SETZ", << RegOp("AL", {"WRITE"}), RegOp("RFLAGS", {"READ"}) >>,
            [NoFlags EXCEPT !.tested = {ZYDIS_CPUFLAG_ZF}], 8)

\* DIV CL  (AX := AX / CL; the six status flags are left undefined)
InstrDivCl ==
    MkInstr("DIV", << RegOp("CL", {"READ"}), RegOp("AX", {"READ", "WRITE"}),
                      RegOp("RFLAGS", {"WRITE"}) >>, NoFlags, 8)

\* PTEST XMM0, XMM1
InstrPtest ==
    MkInstr("PTEST", << RegOp("XMM0", {"READ"}), RegOp("XMM1", {"READ"}),
                        RegOp("RFLAGS", {"WRITE"}) >>,
            [NoFlags EXCEPT !.modified = {ZYDIS_CPUFLAG_CF, ZYDIS_CPUFLAG_ZF},
                            !.set_0 = {ZYDIS_CPUFLAG_PF, ZYDIS_CPUFLAG_AF,
                                       ZYDIS_CPUFLAG_SF, ZYDIS_CPUFLAG_OF}], 128)

\* MOV CL, 0x5A
InstrMovClImm ==
    MkInstr("MOV", << RegOp("CL", {"WRITE"}), ImmOp(90) >>, NoFlags, 8)

\* SETZ CL
InstrSetzCl ==
    MkInstr("SETZ", << RegOp("CL", {"WRITE"}), RegOp("RFLAGS", {"READ"}) >>,
            [NoFlags EXCEPT !.tested = {ZYDIS_CPUFLAG_ZF}], 8)

\* XOR AL, AL  (CF and OF are cleared, SF, ZF and PF follow the result, AF is
\* left undefined)
InstrXorAlAl ==
    MkInstr("XOR", << RegOp("AL", {"READ", "WRITE"}), RegOp("AL", {"READ"}),
                      RegOp("RFLAGS", {"WRITE"}) >>,
            [NoFlags EXCEPT !.modified = {ZYDIS_CPUFLAG_PF, ZYDIS_CPUFLAG_ZF, ZYDIS_CPUFLAG_SF},
                            !.set_0 = {ZYDIS_CPUFLAG_CF, ZYDIS_CPUFLAG_OF}], 8)

\* The encodings a run may be started on.
Encodings ==
    { InstrMovAhImm, InstrMovEaxImm, InstrCmc, InstrClc, InstrDivCl, InstrPtest, InstrXorAlAl }

\* The encodings whose matrix is short (the DIV matrix has 34 targets).
ShortEncodings == Encodings \ { InstrDivCl }

\* instr.operands[i] of the fixed-size operand array (0-based i); slots past
\* operand_count are zero-initialised.
Op(instr, i) == IF i + 1 <= Len(instr.operands) THEN instr.operands[i + 1] ELSE UnusedOp

\* ---------------------------------------------------------------------------
\* Register / flag analysis
\* ---------------------------------------------------------------------------
isRegFiltered(reg) == reg \in {"NONE", "EIP", "RIP", "FLAGS", "EFLAGS", "RFLAGS"}

\* getExceptions with the IntegerOverflow push left out.
getExceptions_DivideErrorOnly(instr) ==
    IF instr.mnemonic = "DIV" THEN << "DivideError" >> ELSE << >>

getExceptions(instr) ==
    IF instr.mnemonic = "DIV" THEN << "DivideError", "IntegerOverflow" >> ELSE << >>

\* A flat set of registers, in iteration order (ascending enumeration value).
RECURSIVE FlatSetSeq(_)
FlatSetSeq(S) ==
    IF S = {} THEN << >>
    ELSE LET m == CHOOSE x \in S : \A y \in S : RegId(x) <= RegId(y)
         IN << m >> \o FlatSetSeq(S \ {m})

\* Insert r into a sequence ordered by width descending, after its equals.
RECURSIVE InsertByWidth(_, _)
InsertByWidth(r, seq) ==
    IF seq = << >> THEN << r >>
    ELSE IF ZydisRegisterGetWidth(r) > ZydisRegisterGetWidth(Head(seq))
         THEN << r >> \o seq
         ELSE << Head(seq) >> \o InsertByWidth(r, Tail(seq))

RECURSIVE SortByWidth(_, _)
SortByWidth(todo, done) ==
    IF todo = << >> THEN done
    ELSE SortByWidth(Tail(todo), InsertByWidth(Head(todo), done))

sortRegs(regs) == SortByWidth(FlatSetSeq(regs), << >>)

\* getRegsModified collecting the largest enclosing register of each operand.
getRegsModified_Roots(instr) ==
    sortRegs({ ZydisRegisterGetLargestEnclosing(Op(instr, i).reg) : i \in
        { j \in 0..(instr.operand_count - 1) :
            /\ Op(instr, j).type = "REGISTER"
            /\ "WRITE" \in Op(instr, j).actions
            /\ ~isRegFiltered(Op(instr, j).reg) } })

getRegsModified(instr) ==
    sortRegs({ Op(instr, i).reg : i \in
        { j \in 0..(instr.operand_count - 1) :
            /\ Op(instr, j).type = "REGISTER"
            /\ "WRITE" \in Op(instr, j).actions
            /\ ~isRegFiltered(Op(instr, j).reg) } })

getRootReg(reg) ==
    IF ZydisRegisterGetClass(reg) \in {"GPR8", "GPR16", "GPR32", "GPR64", "FLAGS"}
    THEN ZydisRegisterGetLargestEnclosing(reg)
    ELSE reg

remapReg(oldReg) ==
    CASE oldReg = "AH" -> "AX"
      [] oldReg = "CH" -> "CX"
      [] OTHER -> oldReg

\* The loop over regs that keeps, per root, the widest (remapped) alias.
RECURSIVE RegMapFold(_, _)
RegMapFold(seq, regMap) ==
    IF seq = << >> THEN regMap
    ELSE LET reg == Head(seq)
             bigReg == getRootReg(reg)
             newReg == remapReg(reg)
             next ==
                 IF bigReg \in DOMAIN regMap
                 THEN IF ZydisRegisterGetWidth(newReg) > ZydisRegisterGetWidth(regMap[bigReg])
                      THEN [regMap EXCEPT ![bigReg] = newReg]
                      ELSE regMap
                 ELSE [b \in (DOMAIN regMap) \cup {bigReg} |->
                          IF b = bigReg THEN newReg ELSE regMap[b]]
         IN RegMapFold(Tail(seq), next)

\* Registers collected by the first two loops of getRegsRead.
RegsReadRaw(instr) ==
    LET idx == 0..(instr.operand_count - 1)
        regOps == { Op(instr, i).reg : i \in { j \in idx : Op(instr, j).type = "REGISTER" } }
        bases == { Op(instr, i).base : i \in
                     { j \in idx : /\ Op(instr, j).type = "MEMORY"
                                    /\ Op(instr, j).base # "NONE"
                                    /\ ~isRegFiltered(Op(instr, j).base) } }
        indexes == { Op(instr, i).index : i \in
                     { j \in idx : /\ Op(instr, j).type = "MEMORY"
                                    /\ Op(instr, j).index # "NONE"
                                    /\ ~isRegFiltered(Op(instr, j).index) } }
        small == { Op(instr, i).reg : i \in
                     { j \in idx : /\ Op(instr, j).type = "REGISTER"
                                    /\ ZydisRegisterGetClass(Op(instr, j).reg) \in {"GPR16", "GPR8"} } }
    IN regOps \cup bases \cup indexes \cup small

\* getRegsRead without the merge of overlapping registers.
getRegsRead_Unmerged(instr) == sortRegs(RegsReadRaw(instr))

getRegsRead(instr) ==
    LET regMap == RegMapFold(FlatSetSeq(RegsReadRaw(instr)), << >>)
    IN sortRegs({ regMap[b] : b \in DOMAIN regMap })

getFlagsModified(instr) == instr.cpu_flags.modified
getFlagsSet0(instr) == instr.cpu_flags.set_0
getFlagsSet1(instr) == instr.cpu_flags.set_1
getFlagsRead(instr) == instr.cpu_flags.tested

\* ---------------------------------------------------------------------------
\* Target bit matrix
\* ---------------------------------------------------------------------------
TestBitInfo(e, r, b, v) ==
    [exceptionType |-> e, reg |-> r, bitPos |-> b, expectedBitValue |-> v]

\* (imm.value.u & (1ULL << bitPos)) != 0, for immediates below 2^31.
ImmBit(u, bitPos) == IF bitPos >= 31 THEN FALSE ELSE Bit(u, bitPos) = 1

\* static_cast<uint8_t>(std::log2(scale))
RECURSIVE Log2(_)
Log2(n) == IF n <= 1 THEN 0 ELSE 1 + Log2(n \div 2)

SetccMnemonics ==
    { "SETB", "SETBE", "SETL", "SETLE", "SETNB", "SETNBE", "SETNL", "SETNLE",
      "SETNO", "SETNP", "SETNS", "SETNZ", "SETO", "SETP", "SETS", "SETZ" }

regDestAndSrcSame(instr) ==
    /\ Op(instr, 0).type = "REGISTER"
    /\ Op(instr, 1).type = "REGISTER"
    /\ Op(instr, 0).reg = Op(instr, 1).reg

\* inputIsImmediate of generateTestMatrix: only operand 1 is inspected.
inputIsImmediate(instr) == Op(instr, 1).type = "IMMEDIATE"

rightInputZero(instr) == inputIsImmediate(instr) /\ Op(instr, 1).imm = 0

\* A mnemonic switch without the cases of SUB, CMP and XOR.
resultAlwaysZero0_NoSameReg(instr) ==
    CASE instr.mnemonic \in {"AND", "TEST", "MOV"} -> rightInputZero(instr)
      [] OTHER -> FALSE

\* resultAlwaysZero as left by the mnemonic switch before the register loop.
resultAlwaysZero0(instr) ==
    CASE instr.mnemonic \in {"SUB", "CMP", "XOR"} -> regDestAndSrcSame(instr)
      [] instr.mnemonic \in {"AND", "TEST", "MOV"} -> rightInputZero(instr)
      [] OTHER -> FALSE

firstBitAlwaysZero(instr) ==
    CASE instr.mnemonic \in {"ADD", "FADD"} -> regDestAndSrcSame(instr)
      [] instr.mnemonic = "LEA" ->
            /\ Op(instr, 1).base # "NONE"
            /\ Op(instr, 1).index = Op(instr, 1).base
            /\ Op(instr, 1).disp = 0
      [] OTHER -> FALSE

\* No low bit is taken to be zero.
numBitsZero_None(instr) == 0

numBitsZero(instr) ==
    IF /\ instr.mnemonic = "LEA"
       /\ Op(instr, 1).base = "NONE"
       /\ Op(instr, 1).index # "NONE"
       /\ Op(instr, 1).scale > 1
       /\ Op(instr, 1).disp = 0
    THEN Log2(Op(instr, 1).scale)
    ELSE 0

\* resultAlwaysZero after the per-register switch has run for regModified.
resultAlwaysZeroAt(instr, regModified, raz) ==
    IF instr.mnemonic = "BSWAP" THEN ZydisRegisterGetWidth(regModified) <= 16 ELSE raz

\* maxBits without the mnemonic switch: always the register width.
maxBits_RegWidth(instr, regModified) == ZydisRegisterGetWidth(regModified)

maxBits(instr, regModified) ==
    CASE instr.mnemonic \in SetccMnemonics -> 1
      [] instr.mnemonic = "LEA" -> instr.address_width
      [] OTHER -> ZydisRegisterGetWidth(regModified)

\* The per-bit targets without the case of BTR with an immediate.
RegBitTargets_NoBtr(instr, regModified, bitPos, raz) ==
    LET imm == Op(instr, 1).imm
        isImm == inputIsImmediate(instr)
        testOne0 == /\ bitPos >= numBitsZero(instr)
                    /\ ~raz
                    /\ bitPos < maxBits(instr, regModified)
        testZero ==
            CASE instr.mnemonic = "MOV" /\ isImm -> ~ImmBit(imm, bitPos)
              [] instr.mnemonic = "OR" /\ isImm -> ~ImmBit(imm, bitPos)
              [] OTHER -> TRUE
        testOne1 ==
            CASE instr.mnemonic = "MOV" /\ isImm -> ImmBit(imm, bitPos)
              [] instr.mnemonic = "OR" /\ isImm -> testOne0
              [] instr.mnemonic = "AND" /\ isImm -> ImmBit(imm, bitPos)
              [] OTHER -> testOne0
        testOne == IF bitPos = 0 /\ firstBitAlwaysZero(instr) THEN FALSE ELSE testOne1
    IN (IF testZero THEN << TestBitInfo("None", regModified, bitPos, 0) >> ELSE << >>)
       \o (IF testOne THEN << TestBitInfo("None", regModified, bitPos, 1) >> ELSE << >>)

\* The targets pushed for one bit position of one modified register.
RegBitTargets(instr, regModified, bitPos, raz) ==
    LET imm == Op(instr, 1).imm
        isImm == inputIsImmediate(instr)
        testOne0 == /\ bitPos >= numBitsZero(instr)
                    /\ ~raz
                    /\ bitPos < maxBits(instr, regModified)
        testZero ==
            CASE instr.mnemonic = "MOV" /\ isImm -> ~ImmBit(imm, bitPos)
              [] instr.mnemonic = "OR" /\ isImm -> ~ImmBit(imm, bitPos)
              [] OTHER -> TRUE
        testOne1 ==
            CASE instr.mnemonic = "MOV" /\ isImm -> ImmBit(imm, bitPos)
              [] instr.mnemonic = "OR" /\ isImm -> testOne0
              [] instr.mnemonic = "AND" /\ isImm -> ImmBit(imm, bitPos)
              [] instr.mnemonic = "BTR" /\ isImm -> (imm % instr.operand_width) # bitPos
              [] OTHER -> testOne0
        testOne == IF bitPos = 0 /\ firstBitAlwaysZero(instr) THEN FALSE ELSE testOne1
    IN (IF testZero THEN << TestBitInfo("None", regModified, bitPos, 0) >> ELSE << >>)
       \o (IF testOne THEN << TestBitInfo("None", regModified, bitPos, 1) >> ELSE << >>)

\* The targets of the bit positions lo..hi-1 in ascending order, the range being
\* halved so that wide registers do not nest deeply.
RECURSIVE RegTargetsIn(_, _, _, _, _)
RegTargetsIn(instr, regModified, lo, hi, raz) ==
    IF lo >= hi THEN << >>
    ELSE IF hi = lo + 1 THEN RegBitTargets(instr, regModified, lo, raz)
    ELSE RegTargetsIn(instr, regModified, lo, (lo + hi) \div 2, raz)
         \o RegTargetsIn(instr, regModified, (lo + hi) \div 2, hi, raz)

\* for (bitPos = 0; bitPos < regSize; ++bitPos)
RegTargets(instr, regModified, bitPos, raz) ==
    RegTargetsIn(instr, regModified, bitPos, ZydisRegisterGetWidth(regModified), raz)

\* Register part of the matrix; raz is resultAlwaysZero on entry to the loop.
RECURSIVE RegsTargets(_, _, _)
RegsTargets(instr, regsModified, raz) ==
    IF regsModified = << >> THEN << >>
    ELSE LET r == Head(regsModified)
             raz1 == resultAlwaysZeroAt(instr, r, raz)
         IN RegTargets(instr, r, 0, raz1) \o RegsTargets(instr, Tail(regsModified), raz1)

\* resultAlwaysZero when the register loop is left.
RECURSIVE resultAlwaysZero(_, _, _)
resultAlwaysZero(instr, regsModified, raz) ==
    IF regsModified = << >> THEN raz
    ELSE resultAlwaysZero(instr, Tail(regsModified),
                          resultAlwaysZeroAt(instr, Head(regsModified), raz))

\* The flag targets with a forced bit enumerated in both polarities.
FlagBitTargets_ForcedBothWays(instr, i) ==
    LET raz == resultAlwaysZero(instr, getRegsModified(instr), resultAlwaysZero0(instr))
        riz == rightInputZero(instr)
        same == regDestAndSrcSame(instr)
        testFlagZero == IF i \in {ZYDIS_CPUFLAG_ZF, ZYDIS_CPUFLAG_PF} THEN ~raz ELSE TRUE
        testFlagOne ==
            CASE i \in {ZYDIS_CPUFLAG_CF, ZYDIS_CPUFLAG_AF} -> ~raz /\ ~riz
              [] i = ZYDIS_CPUFLAG_OF -> ~same /\ ~riz
              [] i = ZYDIS_CPUFLAG_SF -> ~raz
              [] OTHER -> TRUE
        modifiedPart ==
            IF ~inputIsImmediate(instr) /\ i \in getFlagsModified(instr)
            THEN (IF testFlagZero THEN << TestBitInfo("None", "FLAGS", i, 0) >> ELSE << >>)
                 \o (IF testFlagOne THEN << TestBitInfo("None", "FLAGS", i, 1) >> ELSE << >>)
            ELSE << >>
    IN modifiedPart
       \o (IF i \in getFlagsSet0(instr) \cup getFlagsSet1(instr)
           THEN << TestBitInfo("None", "FLAGS", i, 0) >> ELSE << >>)
       \o (IF i \in getFlagsSet0(instr) \cup getFlagsSet1(instr)
           THEN << TestBitInfo("None", "FLAGS", i, 1) >> ELSE << >>)

\* The targets pushed for flag bit i.
FlagBitTargets(instr, i) ==
    LET raz == resultAlwaysZero(instr, getRegsModified(instr), resultAlwaysZero0(instr))
        riz == rightInputZero(instr)
        same == regDestAndSrcSame(instr)
        testFlagZero == IF i \in {ZYDIS_CPUFLAG_ZF, ZYDIS_CPUFLAG_PF} THEN ~raz ELSE TRUE
        testFlagOne ==
            CASE i \in {ZYDIS_CPUFLAG_CF, ZYDIS_CPUFLAG_AF} -> ~raz /\ ~riz
              [] i = ZYDIS_CPUFLAG_OF -> ~same /\ ~riz
              [] i = ZYDIS_CPUFLAG_SF -> ~raz
              [] OTHER -> TRUE
        modifiedPart ==
            IF ~inputIsImmediate(instr) /\ i \in getFlagsModified(instr)
            THEN (IF testFlagZero THEN << TestBitInfo("None", "FLAGS", i, 0) >> ELSE << >>)
                 \o (IF testFlagOne THEN << TestBitInfo("None", "FLAGS", i, 1) >> ELSE << >>)
            ELSE << >>
    IN modifiedPart
       \o (IF i \in getFlagsSet0(instr) THEN << TestBitInfo("None", "FLAGS", i, 0) >> ELSE << >>)
       \o (IF i \in getFlagsSet1(instr) THEN << TestBitInfo("None", "FLAGS", i, 1) >> ELSE << >>)

RECURSIVE FlagTargets(_, _)
FlagTargets(instr, i) ==
    IF i >= 32 THEN << >> ELSE FlagBitTargets(instr, i) \o FlagTargets(instr, i + 1)

ExceptionTargets(instr) ==
    [k \in 1..Len(getExceptions(instr)) |-> TestBitInfo(getExceptions(instr)[k], "NONE", 0, 0)]

generateTestMatrix(instr) ==
    RegsTargets(instr, getRegsModified(instr), resultAlwaysZero0(instr))
    \o FlagTargets(instr, 0)
    \o ExceptionTargets(instr)

\* ---------------------------------------------------------------------------
\* Test case entries
\* ---------------------------------------------------------------------------
Some(v) == [has |-> TRUE, val |-> v]
NoFlagsValue == [has |-> FALSE, val |-> {}]
NoException == [has |-> FALSE, val |-> "None"]

\* TestCaseEntry{}
EmptyEntry ==
    [inputRegs |-> << >>, inputFlags |-> NoFlagsValue,
     outputRegs |-> << >>, outputFlags |-> NoFlagsValue,
     exceptionType |-> NoException]

\* map[key] = value on a flat map
MapSet(m, k, v) == [x \in (DOMAIN m) \cup {k} |-> IF x = k THEN v ELSE m[x]]

\* ---------------------------------------------------------------------------
\* Input generator (x86Tester/inputgenerator.hpp): a staged sequence of byte
\* patterns; advance() reports when the stage rolls over.
\* ---------------------------------------------------------------------------
NumPatterns == 3

GenPattern(idx, nbytes) ==
    CASE idx = 0 -> Fill(0, nbytes)
      [] idx = 1 -> Fill(255, nbytes)
      [] idx = 2 -> [k \in 1..nbytes |-> IF k = 1 THEN 1 ELSE 0]
      [] idx = 3 -> [k \in 1..nbytes |-> IF k = nbytes THEN 128 ELSE 0]
      [] OTHER -> Fill(85, nbytes)

\* InputGenerator(regSize, prng)
NewGenerator(regSize) == [size |-> regSize, idx |-> 0]

GenCurrent(gen) == GenPattern(gen.idx, gen.size \div 8)

GenAdvance(gen) == [gen EXCEPT !.idx = (gen.idx + 1) % NumPatterns]

GenRolledOver(gen) == (gen.idx + 1) % NumPatterns = 0

\* ---------------------------------------------------------------------------
\* Execution context (x86Tester/execution.hpp)
\* ---------------------------------------------------------------------------
\* The register file of the context: the general-purpose roots and the vector
\* registers at their full width.
CtxRegs == {"RAX", "RCX", "ZMM0", "ZMM1"}

\* The register of the file that holds reg: XMMn and YMMn are the low bytes of
\* ZMMn.
Stored(reg) ==
    IF ZydisRegisterGetClass(reg) \in {"XMM", "YMM", "ZMM"}
    THEN ZydisRegisterGetLargestEnclosing(reg)
    ELSE reg

\* Status flags the CPU always reports as set: reserved bit 1 and IF.
ForcedFlags == {1, ZYDIS_CPUFLAG_IF}

InitCtx ==
    [regs |-> [r \in CtxRegs |-> Fill(0, ZydisRegisterGetWidth(r) \div 8)],
     eflags |-> ForcedFlags]

getRegBytes(ctx, reg) ==
    IF reg = "RFLAGS" THEN FlagsBytes(ctx.eflags, 8)
    ELSE SubSeq(ctx.regs[Stored(reg)], 1, ZydisRegisterGetWidth(reg) \div 8)

\* The bytes given replace the low bytes of the stored register.
setRegBytes(ctx, reg, bytes) ==
    [ctx EXCEPT !.regs[Stored(reg)] = bytes \o SubSeq(@, Len(bytes) + 1, Len(@))]

setEflags(ctx, flags) == [ctx EXCEPT !.eflags = flags]

ExecutionStatus ==
    {"Success", "ExceptionIntDivideError", "ExceptionIntOverflow", "IllegalInstruction", "Other"}

ByteAnd(a, b) ==
    Bit(a, 0) * Bit(b, 0) + 2 * Bit(a, 1) * Bit(b, 1) + 4 * Bit(a, 2) * Bit(b, 2)
    + 8 * Bit(a, 3) * Bit(b, 3) + 16 * Bit(a, 4) * Bit(b, 4) + 32 * Bit(a, 5) * Bit(b, 5)
    + 64 * Bit(a, 6) * Bit(b, 6) + 128 * Bit(a, 7) * Bit(b, 7)

StatusFlags ==
    {ZYDIS_CPUFLAG_CF, ZYDIS_CPUFLAG_PF, ZYDIS_CPUFLAG_AF, ZYDIS_CPUFLAG_ZF,
     ZYDIS_CPUFLAG_SF, ZYDIS_CPUFLAG_OF}

getRegOffset(reg) == IF reg \in {"AH", "CH"} THEN 1 ELSE 0

\* What the processor does with the staged state: [status, ctx].
Run(instr, ctx) ==
    LET rax == ctx.regs["RAX"]
        rcx == ctx.regs["RCX"]
        ok(c) == [status |-> "Success", ctx |-> setEflags(c, c.eflags \cup ForcedFlags)]
        fault(st) == [status |-> st, ctx |-> ctx]
        dst == Op(instr, 0).reg
        dstRoot == ZydisRegisterGetLargestEnclosing(dst)
        write8(v) == setRegBytes(ctx, dstRoot,
                        [ctx.regs[dstRoot] EXCEPT ![getRegOffset(dst) + 1] = v])
        \* a 32-bit destination is zero-extended into the 64-bit root
        write32(v) == setRegBytes(ctx, dstRoot, ToBytes(v, 4) \o Fill(0, 4))
    IN CASE instr.mnemonic = "MOV" ->
              IF ZydisRegisterGetWidth(dst) = 32
              THEN ok(write32(Op(instr, 1).imm))
              ELSE ok(write8(Op(instr, 1).imm))
         [] instr.mnemonic = "CMC" ->
              ok(setEflags(ctx, IF ZYDIS_CPUFLAG_CF \in ctx.eflags
                                THEN ctx.eflags \ {ZYDIS_CPUFLAG_CF}
                                ELSE ctx.eflags \cup {ZYDIS_CPUFLAG_CF}))
         [] instr.mnemonic = "CLC" ->
              ok(setEflags(ctx, ctx.eflags \ {ZYDIS_CPUFLAG_CF}))
         [] instr.mnemonic = "SETZ" ->
              ok(write8(IF ZYDIS_CPUFLAG_ZF \in ctx.eflags THEN 1 ELSE 0))
         [] instr.mnemonic = "XOR" ->
              LET a == ctx.regs[dstRoot][getRegOffset(dst) + 1]
                  b == ctx.regs[ZydisRegisterGetLargestEnclosing(Op(instr, 1).reg)]
                               [getRegOffset(Op(instr, 1).reg) + 1]
                  r == a + b - 2 * ByteAnd(a, b)
              IN ok(setEflags(write8(r),
                              (ctx.eflags \ {ZYDIS_CPUFLAG_CF, ZYDIS_CPUFLAG_OF, ZYDIS_CPUFLAG_PF,
                                              ZYDIS_CPUFLAG_ZF, ZYDIS_CPUFLAG_SF})
                              \cup (IF r = 0 THEN {ZYDIS_CPUFLAG_ZF} ELSE {})
                              \cup (IF r >= 128 THEN {ZYDIS_CPUFLAG_SF} ELSE {})
                              \cup (IF Cardinality({ n \in 0..7 : Bit(r, n) = 1 }) % 2 = 0
                                    THEN {ZYDIS_CPUFLAG_PF} ELSE {})))
         [] instr.mnemonic = "ADD" ->
              LET a == ctx.regs[dstRoot][getRegOffset(dst) + 1]
                  b == ctx.regs[ZydisRegisterGetLargestEnclosing(Op(instr, 1).reg)]
                               [getRegOffset(Op(instr, 1).reg) + 1]
                  r == (a + b) % 256
              IN ok(setEflags(write8(r),
                              (ctx.eflags \ StatusFlags)
                              \cup (IF a + b >= 256 THEN {ZYDIS_CPUFLAG_CF} ELSE {})
                              \cup (IF (a % 16) + (b % 16) >= 16 THEN {ZYDIS_CPUFLAG_AF} ELSE {})
                              \cup (IF (a >= 128) = (b >= 128) /\ (r >= 128) # (a >= 128)
                                    THEN {ZYDIS_CPUFLAG_OF} ELSE {})
                              \cup (IF r = 0 THEN {ZYDIS_CPUFLAG_ZF} ELSE {})
                              \cup (IF r >= 128 THEN {ZYDIS_CPUFLAG_SF} ELSE {})
                              \cup (IF Cardinality({ n \in 0..7 : Bit(r, n) = 1 }) % 2 = 0
                                    THEN {ZYDIS_CPUFLAG_PF} ELSE {})))
         [] instr.mnemonic = "SUB" ->
              LET a == ctx.regs[dstRoot][getRegOffset(dst) + 1]
                  b == ctx.regs[ZydisRegisterGetLargestEnclosing(Op(instr, 1).reg)]
                               [getRegOffset(Op(instr, 1).reg) + 1]
                  r == (a + 256 - b) % 256
              IN ok(setEflags(write8(r),
                              (ctx.eflags \ StatusFlags)
                              \cup (IF a < b THEN {ZYDIS_CPUFLAG_CF} ELSE {})
                              \cup (IF (a % 16) < (b % 16) THEN {ZYDIS_CPUFLAG_AF} ELSE {})
                              \cup (IF (a >= 128) # (b >= 128) /\ (r >= 128) # (a >= 128)
                                    THEN {ZYDIS_CPUFLAG_OF} ELSE {})
                              \cup (IF r = 0 THEN {ZYDIS_CPUFLAG_ZF} ELSE {})
                              \cup (IF r >= 128 THEN {ZYDIS_CPUFLAG_SF} ELSE {})
                              \cup (IF Cardinality({ n \in 0..7 : Bit(r, n) = 1 }) % 2 = 0
                                    THEN {ZYDIS_CPUFLAG_PF} ELSE {})))
         [] instr.mnemonic = "DIV" ->
              LET ax == rax[1] + 256 * rax[2]
                  cl == rcx[1]
              IN IF cl = 0 THEN fault("ExceptionIntDivideError")
                 ELSE IF ax \div cl > 255 THEN fault("ExceptionIntOverflow")
                 ELSE ok(setRegBytes(ctx, "RAX",
                            [rax EXCEPT ![1] = ax \div cl, ![2] = ax % cl]))
         [] instr.mnemonic = "PTEST" ->
              LET a == getRegBytes(ctx, "XMM0")
                  b == getRegBytes(ctx, "XMM1")
                  zf == \A k \in 1..16 : ByteAnd(a[k], b[k]) = 0
                  cf == \A k \in 1..16 : ByteAnd(255 - a[k], b[k]) = 0
              IN ok(setEflags(ctx, (ctx.eflags \ StatusFlags)
                                   \cup (IF zf THEN {ZYDIS_CPUFLAG_ZF} ELSE {})
                                   \cup (IF cf THEN {ZYDIS_CPUFLAG_CF} ELSE {})))
         [] OTHER -> ok(ctx)

\* ---------------------------------------------------------------------------
\* Search loop helpers
\* ---------------------------------------------------------------------------
\* The read registers that get an input generator, in generator order.
ReadRegsStaged(instr) == SelectSeq(getRegsRead(instr), LAMBDA r : ~isRegFiltered(r))

GeneratorsFor(regs) == [k \in 1..Len(regs) |-> NewGenerator(ZydisRegisterGetWidth(regs[k]))]

setupInputGenerators(instr) ==
    GeneratorsFor(ReadRegsStaged(instr))

isInputFromImmediate(instr) ==
    \E i \in 0..(instr.operand_count - 1) : Op(instr, i).type = "IMMEDIATE"

maxAttempts(instr) ==
    IF isInputFromImmediate(instr)
    THEN kAbortTestCaseThreshold \div 3
    ELSE kAbortTestCaseThreshold

\* constexpr uint8_t ccBytes[]: thirty-two bytes of 0xCC.
ccBytes == Fill(204, 32)

\* std::span{ccBytes, n} as setRegBytes reads it: the n bytes that start at
\* the table. The bytes past the table's end are what the build placed behind
\* it, `beyond`.
ccSpan(n, beyond) ==
    [k \in 1..n |-> IF k <= Len(ccBytes) THEN ccBytes[k] ELSE beyond[k - Len(ccBytes)]]

\* The body of the cleanse loop for one root.
CleanseReg(ctx, reg, beyond) ==
    IF isRegFiltered(reg) THEN ctx
    ELSE setRegBytes(ctx, reg, ccSpan(ZydisRegisterGetWidth(reg) \div 8, beyond))

\* "Cleanse the registers": every non-filtered read root is set to 0xCC bytes.
\* No root of the encodings staged through this operator is wider than the
\* table, so that nothing is read behind it.
RECURSIVE Cleanse(_, _)
Cleanse(ctx, roots) ==
    IF roots = << >> THEN ctx
    ELSE Cleanse(CleanseReg(ctx, Head(roots), << >>), Tail(roots))

\* StageReg that keys the entry's buffer by the staged alias, not by its root.
StageReg_KeyedByAlias(reg, bigReg, gen, st) ==
    LET usedRegByteSize == ZydisRegisterGetWidth(reg) \div 8
        bigRegByteSize == ZydisRegisterGetWidth(bigReg) \div 8
        regBuf == Splice(getRegBytes(st.ctx, bigReg), getRegOffset(reg),
                         GenCurrent(gen), usedRegByteSize)
    IN [ctx |-> setRegBytes(st.ctx, bigReg, SubSeq(regBuf, 1, bigRegByteSize)),
        entry |-> [st.entry EXCEPT
                     !.inputRegs = MapSet(@, reg, SubSeq(regBuf, 1, bigRegByteSize))]]

\* StageReg that records only the alias-sized prefix of the buffer in the entry.
StageReg_AliasSized(reg, bigReg, gen, st) ==
    LET usedRegByteSize == ZydisRegisterGetWidth(reg) \div 8
        bigRegByteSize == ZydisRegisterGetWidth(bigReg) \div 8
        regBuf == Splice(getRegBytes(st.ctx, bigReg), getRegOffset(reg),
                         GenCurrent(gen), usedRegByteSize)
    IN [ctx |-> setRegBytes(st.ctx, bigReg, SubSeq(regBuf, 1, bigRegByteSize)),
        entry |-> [st.entry EXCEPT
                     !.inputRegs = MapSet(@, bigReg, SubSeq(regBuf, 1, usedRegByteSize))]]

\* "Randomize read registers", one register: the generator's bytes are spliced
\* into the root register's current bytes at the alias offset, and the whole
\* root buffer is written to the context and to the entry.
StageReg(reg, bigReg, gen, st) ==
    LET usedRegByteSize == ZydisRegisterGetWidth(reg) \div 8
        bigRegByteSize == ZydisRegisterGetWidth(bigReg) \div 8
        regBuf == Splice(getRegBytes(st.ctx, bigReg), getRegOffset(reg),
                         GenCurrent(gen), usedRegByteSize)
    IN [ctx |-> setRegBytes(st.ctx, bigReg, SubSeq(regBuf, 1, bigRegByteSize)),
        entry |-> [st.entry EXCEPT
                     !.inputRegs = MapSet(@, bigReg, SubSeq(regBuf, 1, bigRegByteSize))]]

\* The staging loop over the non-filtered read registers; st = [ctx, entry].
RECURSIVE StageRegs(_, _, _, _)
StageRegs(regs, gens, k, st) ==
    IF k > Len(regs) THEN st
    ELSE StageRegs(regs, gens, k + 1,
                   StageReg(regs[k], getRootReg(regs[k]), gens[k], st))

\* The generator-advance loop: advance in index order, stop after a generator
\* that rolled over when (iteration + 1) % 3 == 0.
RECURSIVE AdvanceGens(_, _, _)
AdvanceGens(gens, k, iteration) ==
    IF k > Len(gens) THEN gens
    ELSE LET gens1 == [gens EXCEPT ![k] = GenAdvance(gens[k])]
         IN IF GenRolledOver(gens[k]) /\ (iteration + 1) % 3 = 0
            THEN gens1
            ELSE AdvanceGens(gens1, k + 1, iteration)

\* The roots of the read registers (regsReadBig).
RootsOf(regsRead) == { getRootReg(regsRead[k]) : k \in 1..Len(regsRead) }

\* StageFlags that records the input flags only when the drawn value is non-zero.
StageFlags_OnlyNonZero(staged, flagsRead, prngFlags) ==
    [ctx |-> setEflags(staged.ctx,
                       (IF flagsRead # {} THEN prngFlags ELSE {}) \ {ZYDIS_CPUFLAG_TF}),
     entry |-> IF flagsRead # {} /\ prngFlags # {}
               THEN [staged.entry EXCEPT !.inputFlags = Some(prngFlags)]
               ELSE staged.entry]

\* "Randomize read flags": the input flags are recorded in the entry when the
\* tested mask is non-zero; the context gets them with TF cleared.
StageFlags(staged, flagsRead, prngFlags) ==
    [ctx |-> setEflags(staged.ctx,
                       (IF flagsRead # {} THEN prngFlags ELSE {}) \ {ZYDIS_CPUFLAG_TF}),
     entry |-> IF flagsRead # {}
               THEN [staged.entry EXCEPT !.inputFlags = Some(prngFlags)]
               ELSE staged.entry]

WithGens(st, gens) == [ctx |-> st.ctx, gens |-> gens, entry |-> st.entry]

\* advanceInputs; prngFlags is the set of tested flag bits the PRNG drew as 1.
advanceInputs(ctx, gens, instr, testEntry, iteration, prngFlags) ==
    WithGens(StageFlags(StageRegs(ReadRegsStaged(instr), gens, 1,
                                  [ctx |-> Cleanse(ctx, FlatSetSeq(RootsOf(getRegsRead(instr)))),
                                   entry |-> testEntry]),
                        getFlagsRead(instr), prngFlags),
             AdvanceGens(gens, 1, iteration))

clearOutput(ctx, testBitInfo) ==
    LET reg == testBitInfo.reg
        regSize == ZydisRegisterGetWidth(reg) \div 8
        regOffset == getRegOffset(reg)
        bigReg == getRootReg(reg)
        bigRegSize == ZydisRegisterGetWidth(bigReg) \div 8
        regBuf == [k \in 1..bigRegSize |->
                     IF k > regOffset /\ k <= regOffset + regSize
                     THEN (IF testBitInfo.expectedBitValue = 0 THEN 255 ELSE 0)
                     ELSE 0]
        ctx1 == IF ~isRegFiltered(reg) THEN setRegBytes(ctx, bigReg, regBuf) ELSE ctx
    IN setEflags(ctx1, IF testBitInfo.expectedBitValue = 0 THEN StatusFlags ELSE {})

\* "Capture output" part of checkOutputs.
RECURSIVE CaptureRegs(_, _, _)
CaptureRegs(ctx, regsModified, outputRegs) ==
    IF regsModified = << >> THEN outputRegs
    ELSE LET bigReg == getRootReg(Head(regsModified))
             bigSize == ZydisRegisterGetWidth(bigReg)
         IN CaptureRegs(ctx, Tail(regsModified),
                MapSet(outputRegs, bigReg, SubSeq(getRegBytes(ctx, bigReg), 1, bigSize \div 8)))

\* checkOutputs: [hit, entry]
checkOutputs(ctx, instr, testBitInfo, testEntry) ==
    LET bigReg == getRootReg(testBitInfo.reg)
        regData == getRegBytes(ctx, bigReg)
        regOffset == getRegOffset(testBitInfo.reg)
        bitValue == Bit(regData[regOffset + (testBitInfo.bitPos \div 8) + 1], testBitInfo.bitPos % 8)
    IN IF bitValue # testBitInfo.expectedBitValue
       THEN [hit |-> FALSE, entry |-> testEntry]
       ELSE [hit |-> TRUE,
             entry |->
                [testEntry EXCEPT
                    !.outputRegs = CaptureRegs(ctx, getRegsModified(instr), @),
                    !.outputFlags = IF getFlagsModified(instr) # {}
                                    THEN Some(ctx.eflags \ {ZYDIS_CPUFLAG_IF})
                                    ELSE @]]

\* ---------------------------------------------------------------------------
\* Entry order and equality (TestCaseEntry::operator<, operator==)
\* ---------------------------------------------------------------------------
\* std::lexicographical_compare on byte vectors
BytesLess(a, b) ==
    LET n == IF Len(a) < Len(b) THEN Len(a) ELSE Len(b)
        diff == { k \in 1..n : a[k] # b[k] }
    IN IF diff = {} THEN Len(a) < Len(b)
       ELSE LET d == CHOOSE k \in diff : \A j \in diff : k <= j
            IN a[d] < b[d]

\* A flat map as its sequence of (key, value) pairs in iteration order.
MapPairs(m) ==
    LET keys == FlatSetSeq(DOMAIN m)
    IN [k \in 1..Len(keys) |-> << keys[k], m[keys[k]] >>]

\* std::pair operator<
PairLess(p, q) ==
    \/ RegId(p[1]) < RegId(q[1])
    \/ (~(RegId(q[1]) < RegId(p[1])) /\ BytesLess(p[2], q[2]))

\* std::lexicographical_compare on sequences of pairs
PairsLess(a, b) ==
    LET n == IF Len(a) < Len(b) THEN Len(a) ELSE Len(b)
        diff == { k \in 1..n : PairLess(a[k], b[k]) \/ PairLess(b[k], a[k]) }
    IN IF diff = {} THEN Len(a) < Len(b)
       ELSE LET d == CHOOSE k \in diff : \A j \in diff : k <= j
            IN PairLess(a[d], b[d])

MapLess(m1, m2) == PairsLess(MapPairs(m1), MapPairs(m2))

MapEq(m1, m2) ==
    /\ DOMAIN m1 = DOMAIN m2
    /\ \A k \in DOMAIN m1 : m1[k] = m2[k]

\* std::optional<uint32_t> operator<, operator==
OptFlagsLess(a, b) ==
    IF ~b.has THEN FALSE
    ELSE IF ~a.has THEN TRUE
    ELSE FlagsValue(a.val) < FlagsValue(b.val)

OptFlagsEq(a, b) == a.has = b.has /\ (a.has => a.val = b.val)

ExceptionOrd(e) ==
    CASE e = "None" -> 0 [] e = "DivideError" -> 1 [] e = "IntegerOverflow" -> 2

OptExcLess(a, b) ==
    IF ~b.has THEN FALSE
    ELSE IF ~a.has THEN TRUE
    ELSE ExceptionOrd(a.val) < ExceptionOrd(b.val)

OptExcEq(a, b) == a.has = b.has /\ (a.has => a.val = b.val)

\* TestCaseEntry::operator== 
EntryEq(a, b) ==
    /\ MapEq(a.inputRegs, b.inputRegs)
    /\ OptFlagsEq(a.inputFlags, b.inputFlags)
    /\ MapEq(a.outputRegs, b.outputRegs)
    /\ OptFlagsEq(a.outputFlags, b.outputFlags)
    /\ OptExcEq(a.exceptionType, b.exceptionType)

\* TestCaseEntry::operator< (std::tie comparison)
EntryLess(a, b) ==
    IF MapLess(a.inputRegs, b.inputRegs) THEN TRUE
    ELSE IF MapLess(b.inputRegs, a.inputRegs) THEN FALSE
    ELSE IF OptFlagsLess(a.inputFlags, b.inputFlags) THEN TRUE
    ELSE IF OptFlagsLess(b.inputFlags, a.inputFlags) THEN FALSE
    ELSE IF MapLess(a.outputRegs, b.outputRegs) THEN TRUE
    ELSE IF MapLess(b.outputRegs, a.outputRegs) THEN FALSE
    ELSE IF OptFlagsLess(a.outputFlags, b.outputFlags) THEN TRUE
    ELSE IF OptFlagsLess(b.outputFlags, a.outputFlags) THEN FALSE
    ELSE OptExcLess(a.exceptionType, b.exceptionType)

\* std::sort(entries.begin(), entries.end())
RECURSIVE InsertEntry(_, _)
InsertEntry(e, seq) ==
    IF seq = << >> THEN << e >>
    ELSE IF ~EntryLess(Head(seq), e) THEN << e >> \o seq
    ELSE << Head(seq) >> \o InsertEntry(e, Tail(seq))

RECURSIVE SortEntries(_)
SortEntries(seq) ==
    IF seq = << >> THEN << >> ELSE InsertEntry(Head(seq), SortEntries(Tail(seq)))

\* std::unique + erase that erases nothing.
UniqueEntries_NoErase(seq) == seq

\* std::unique + erase
RECURSIVE UniqueEntries(_)
UniqueEntries(seq) ==
    IF Len(seq) <= 1 THEN seq
    ELSE IF EntryEq(seq[1], seq[2]) THEN UniqueEntries(<< seq[1] >> \o SubSeq(seq, 3, Len(seq)))
    ELSE << seq[1] >> \o UniqueEntries(Tail(seq))

\* ---------------------------------------------------------------------------
\* State: one encoding run through generateInstructionTestData
\* ---------------------------------------------------------------------------
VARIABLES
    instr,               \* the decoded encoding under test
    testMatrix,          \* testMatrix of testInstruction
    testGroups,          \* testGroups of generateInstrTests
    pc,                  \* "prepare", "loop", "after", "dedup", "done"
    targetIdx,           \* index into the test matrix of the current target
    testEntry,           \* testEntry of the current target
    inputGenerators,     \* inputGenerators of the current target
    hasExpected,
    illegalInstr,
    iteration,
    ctx,                 \* the execution context
    entries,             \* testCase.entries
    illegalInstruction,  \* testCase.illegalInstruction
    log,                 \* lines printed by Logging::println
    lastStatus,          \* status of the latest execute()
    execCalls,           \* execute() calls made for the current target
    otherFaults,         \* statuses "Other" reported so far
    pushed               \* history of entries.push_back: target, status, entry

\* generateInstrTests: the corpus of one mnemonic tested by worker threads.
VARIABLES
    corpus,              \* instrs: the encodings of the mnemonic, in corpus order
    faults,              \* per encoding, how its execution context misbehaves
    nextInstr,           \* the next encoding forEachParallel hands to a worker
    worker,              \* per worker: position, encoding, testCase, end of list read
    mtx,                 \* owner of mtx, 0 when unlocked
    curInstr,            \* the progress counter
    runs,                \* per encoding, what its generateInstructionTestData did
    prngLeft,            \* the PRNG state the last finished run left behind
    mainPc,              \* "parallel", "sort", "bucket", "save", "finished"
    testGroupsMap,       \* testGroupsMap
    file                 \* testdata/<mnemonic>.txt per mnemonic, as lines

VARIABLES
    debug,               \* whether the build defines _DEBUG
    tableIdx,            \* position of main in the calls it makes
    generated            \* the mnemonics whose encodings were built and run

mainVars == << debug, tableIdx, generated >>

parVars ==
    << corpus, faults, nextInstr, worker, mtx, curInstr, runs, prngLeft, mainPc,
       testGroupsMap, file, mainVars >>

searchVars ==
    << instr, testMatrix, pc, targetIdx, testEntry, inputGenerators, hasExpected, illegalInstr,
       iteration, ctx, entries, illegalInstruction, log, lastStatus, execCalls,
       otherFaults, pushed >>

vars == << searchVars, testGroups, parVars >>

testBitInfo == testMatrix[targetIdx]

LogLine(kind, target) == [kind |-> kind, target |-> target]

InitOn(encodings) ==
    /\ instr \in encodings
    /\ testMatrix = generateTestMatrix(instr)
    /\ testGroups = << >>
    /\ pc = "prepare"
    /\ targetIdx = 1
    /\ testEntry = EmptyEntry
    /\ inputGenerators = << >>
    /\ hasExpected = FALSE
    /\ illegalInstr = FALSE
    /\ iteration = 0
    /\ ctx = InitCtx
    /\ entries = << >>
    /\ illegalInstruction = FALSE
    /\ log = << >>
    /\ lastStatus = "Success"
    /\ execCalls = 0
    /\ otherFaults = 0
    /\ pushed = << >>

\* Head of the for loop over the matrix, for target index k.
BeginTarget(k) ==
    /\ targetIdx' = k
    /\ IF k > Len(testMatrix)
       THEN /\ pc' = "dedup"
            /\ UNCHANGED << testEntry, inputGenerators, hasExpected, illegalInstr,
                            iteration, execCalls >>
       ELSE /\ pc' = "loop"
            /\ testEntry' = EmptyEntry
            /\ inputGenerators' = setupInputGenerators(instr)
            /\ hasExpected' = FALSE
            /\ illegalInstr' = FALSE
            /\ iteration' = 0
            /\ execCalls' = 0

\* testInstruction up to the matrix loop: the context is constructed.
PrepareContext ==
    /\ pc = "prepare"
    /\ BeginTarget(1)
    /\ UNCHANGED << parVars, instr, testMatrix, testGroups, ctx, entries, illegalInstruction, log, lastStatus,
                    otherFaults, pushed >>

\* "Failed to prepare context": testInstruction returns.
PrepareFails ==
    /\ pc = "prepare"
    /\ pc' = "dedup"
    /\ log' = Append(log, LogLine("prepare_failed", 0))
    /\ UNCHANGED << parVars, instr, testMatrix, testGroups, targetIdx, testEntry, inputGenerators, hasExpected,
                    illegalInstr, iteration, ctx, entries, illegalInstruction,
                    lastStatus, execCalls, otherFaults, pushed >>

\* The exception type the status switch derives from the execution status.
StatusException(status) ==
    CASE status = "ExceptionIntDivideError" -> "DivideError"
      [] status = "ExceptionIntOverflow" -> "IntegerOverflow"
      [] OTHER -> "None"

HitResult(r) == [hasExpected |-> r.hit, illegalInstr |-> FALSE, entry |-> r.entry]

\* The status switch that declares a hit on every exception status, whatever
\* exception the target expects.
Classify_AnyExceptionHits(status, c, entry) ==
    IF status # "Success"
    THEN IF StatusException(status) # testBitInfo.exceptionType
            /\ StatusException(status) = "None"
         THEN [hasExpected |-> FALSE, illegalInstr |-> status = "IllegalInstruction",
               entry |-> entry]
         ELSE [hasExpected |-> TRUE, illegalInstr |-> status = "IllegalInstruction",
               entry |-> [entry EXCEPT !.exceptionType = Some(StatusException(status))]]
    ELSE IF testBitInfo.exceptionType = "None"
         THEN HitResult(checkOutputs(c, instr, testBitInfo, entry))
         ELSE [hasExpected |-> hasExpected, illegalInstr |-> FALSE, entry |-> entry]

\* The status switch and hit test of one iteration of the while body, for the
\* encoding i and the target tbi: [hasExpected, illegalInstr, entry].
ClassifyAt(i, tbi, had, status, c, entry) ==
    IF status # "Success"
    THEN IF StatusException(status) # tbi.exceptionType
         THEN [hasExpected |-> FALSE, illegalInstr |-> status = "IllegalInstruction",
               entry |-> entry]
         ELSE [hasExpected |-> TRUE, illegalInstr |-> status = "IllegalInstruction",
               entry |-> [entry EXCEPT !.exceptionType = Some(StatusException(status))]]
    ELSE IF tbi.exceptionType = "None"
         THEN HitResult(checkOutputs(c, i, tbi, entry))
         ELSE [hasExpected |-> had, illegalInstr |-> FALSE, entry |-> entry]

\* The status switch and hit test on the current target.
Classify(status, c, entry) == ClassifyAt(instr, testBitInfo, hasExpected, status, c, entry)

\* ---------------------------------------------------------------------------
\* testInstruction as a function of the encoding
\* ---------------------------------------------------------------------------
\* The worker threads of generateInstrTests each run generateInstructionTestData
\* on an encoding. The run touches nothing shared, so it is one function of the
\* encoding, of the PRNG it starts with and of the behaviour of the execution
\* context, which is given as a fault: [kind, at] makes the context fail to be
\* constructed ("prepare"), makes the at-th execute() of the run return false
\* ("execute") or makes it report an illegal instruction ("illegal").
NoFault == [kind |-> "none", at |-> 0]

\* instr.info.mnemonic as a number (the ZydisMnemonic enumeration is alphabetic).
MnemonicId(mnemonic) ==
    CASE mnemonic = "CLC" -> 1 [] mnemonic = "CMC" -> 2 [] mnemonic = "DIV" -> 3
      [] mnemonic = "MOV" -> 4 [] mnemonic = "PTEST" -> 5 [] mnemonic = "SETZ" -> 6
      [] mnemonic = "XOR" -> 7 [] OTHER -> 0

\* std::mt19937_64 prng(seed): the state is the seed and the number of draws
\* made; the value of a draw, modulo 2, is a fixed function of both.
PrngNew(seed) == [seed |-> seed, n |-> 0]

PrngBit(prng) == (((prng.seed + prng.n) * (prng.n + 3)) \div 2) % 2

\* "Randomize read flags": one draw per tested flag bit, in ascending bit order.
RECURSIVE DrawFlags(_, _, _, _)
DrawFlags(prng, i, flagsRead, flags) ==
    IF i > 31 THEN [prng |-> prng, flags |-> flags]
    ELSE IF i \in flagsRead
         THEN DrawFlags([prng EXCEPT !.n = @ + 1], i + 1, flagsRead,
                        IF PrngBit(prng) = 1 THEN flags \cup {i} ELSE flags)
         ELSE DrawFlags(prng, i + 1, flagsRead, flags)

\* The inputs one pass of the while body staged, as the entry records them.
StagedInputs(k, staged) ==
    [target |-> k, inputRegs |-> staged.entry.inputRegs, inputFlags |-> staged.entry.inputFlags]

\* The state in which the while loop of one target ends.
SearchEnd(outcome, k, s, prng, staged, c, entry) ==
    [outcome |-> outcome, ctx |-> c, entry |-> entry, prng |-> prng,
     calls |-> s.calls + 1, trace |-> Append(s.trace, StagedInputs(k, staged))]

RECURSIVE SearchLoop(_, _, _, _, _)

\* The end of one pass of the while body: r is the outcome of the status switch
\* and hit test on the context c.
SearchClassified(i, matrix, k, fault, s, prng, staged, c, r) ==
    IF r.illegalInstr THEN SearchEnd("illegal", k, s, prng, staged, c, r.entry)
    ELSE IF r.hasExpected THEN SearchEnd("hit", k, s, prng, staged, c, r.entry)
    ELSE IF s.iteration + 1 > maxAttempts(i)
         THEN SearchEnd("abandoned", k, s, prng, staged, c, r.entry)
    ELSE SearchLoop(i, matrix, k, fault,
                    [ctx |-> c, gens |-> staged.gens, entry |-> r.entry,
                     iteration |-> s.iteration + 1, prng |-> prng,
                     calls |-> s.calls + 1,
                     trace |-> Append(s.trace, StagedInputs(k, staged))])

SearchExecuted(i, matrix, k, fault, s, prng, staged, res) ==
    SearchClassified(i, matrix, k, fault, s, prng, staged, res.ctx,
                     ClassifyAt(i, matrix[k], FALSE, res.status, res.ctx, staged.entry))

\* A loop that takes a failed execute() for an execution with an unexpected
\* status and carries on.
SearchStaged_IgnoresFailure(i, matrix, k, fault, s, prng, staged) ==
    IF fault.kind \in { "execute", "illegal" } /\ fault.at = s.calls + 1
    THEN SearchExecuted(i, matrix, k, fault, s, prng, staged,
                        [status |-> IF fault.kind = "execute" THEN "Other"
                                    ELSE "IllegalInstruction",
                         ctx |-> staged.ctx])
    ELSE SearchExecuted(i, matrix, k, fault, s, prng, staged, Run(i, staged.ctx))

\* execute() and what follows it, on the staged context.
SearchStaged(i, matrix, k, fault, s, prng, staged) ==
    IF fault.kind = "execute" /\ fault.at = s.calls + 1
    THEN SearchEnd("execute_failed", k, s, prng, staged, staged.ctx, staged.entry)
    ELSE IF fault.kind = "illegal" /\ fault.at = s.calls + 1
         THEN SearchExecuted(i, matrix, k, fault, s, prng, staged,
                             [status |-> "IllegalInstruction", ctx |-> staged.ctx])
         ELSE SearchExecuted(i, matrix, k, fault, s, prng, staged, Run(i, staged.ctx))

SearchDrawn(i, matrix, k, fault, s, draw) ==
    SearchStaged(i, matrix, k, fault, s, draw.prng,
                 advanceInputs(clearOutput(s.ctx, matrix[k]), s.gens, i, s.entry,
                               s.iteration, draw.flags))

\* The while loop on target k from the loop state s.
SearchLoop(i, matrix, k, fault, s) ==
    SearchDrawn(i, matrix, k, fault, s, DrawFlags(s.prng, 0, getFlagsRead(i), {}))

RECURSIVE TestTargets(_, _, _, _, _)

\* The code after the while loop of target k, which ended in t.
AfterTarget(i, matrix, k, fault, acc, t) ==
    IF t.outcome \in { "execute_failed", "illegal" }
    THEN [entries |-> acc.entries, illegalInstruction |-> t.outcome = "illegal",
          ended |-> t.outcome, calls |-> t.calls, lastTarget |-> k,
          trace |-> t.trace, prng |-> t.prng, ctx |-> t.ctx]
    ELSE TestTargets(i, matrix, k + 1, fault,
                     [acc EXCEPT !.entries = IF t.outcome = "hit"
                                             THEN Append(acc.entries, t.entry)
                                             ELSE acc.entries,
                                 !.calls = t.calls, !.lastTarget = k,
                                 !.trace = t.trace, !.prng = t.prng, !.ctx = t.ctx])

\* The for loop over the matrix from target k.
TestTargets(i, matrix, k, fault, acc) ==
    IF k > Len(matrix) THEN acc
    ELSE AfterTarget(i, matrix, k, fault, acc,
                     SearchLoop(i, matrix, k, fault,
                                [ctx |-> acc.ctx, gens |-> setupInputGenerators(i),
                                 entry |-> EmptyEntry, iteration |-> 0, prng |-> acc.prng,
                                 calls |-> acc.calls, trace |-> acc.trace]))

\* testInstruction on the encoding i with the PRNG prng: the entries and the
\* illegal flag of the group, with the number of execute() calls made, the last
\* target attempted and the inputs staged.
testInstruction(i, fault, prng) ==
    IF fault.kind = "prepare"
    THEN [entries |-> << >>, illegalInstruction |-> FALSE, ended |-> "prepare_failed",
          calls |-> 0, lastTarget |-> 0, trace |-> << >>, prng |-> prng, ctx |-> InitCtx]
    ELSE TestTargets(i, generateTestMatrix(i), 1, fault,
                     [entries |-> << >>, illegalInstruction |-> FALSE, ended |-> "completed",
                      calls |-> 0, lastTarget |-> 0, trace |-> << >>, prng |-> prng,
                      ctx |-> InitCtx])

WithoutDuplicates(run) == [run EXCEPT !.entries = UniqueEntries(SortEntries(run.entries))]

generateInstructionTestData(i, fault, prng) == WithoutDuplicates(testInstruction(i, fault, prng))

\* The staged state of the current iteration, before execute().
Staged(prngFlags) ==
    advanceInputs(clearOutput(ctx, testBitInfo), inputGenerators, instr, testEntry,
                  iteration, prngFlags)

\* The end of a pass that does not count the attempt: no iteration++, so the
\* budget is never exceeded.
Commit_Uncounted(gens, status, c, r) ==
    /\ ctx' = c
    /\ inputGenerators' = gens
    /\ testEntry' = r.entry
    /\ hasExpected' = r.hasExpected
    /\ illegalInstr' = r.illegalInstr
    /\ lastStatus' = status
    /\ pc' = IF iteration > maxAttempts(instr) \/ r.hasExpected \/ r.illegalInstr
             THEN "after"
             ELSE "loop"
    /\ UNCHANGED << parVars, instr, testMatrix, testGroups, targetIdx, entries,
                    illegalInstruction, pushed, execCalls, iteration, log >>

\* The end of one pass of the while body: r is the outcome of the status switch
\* and hit test; the attempt is counted and the budget is checked.
Commit(gens, status, c, r) ==
    /\ ctx' = c
    /\ inputGenerators' = gens
    /\ testEntry' = r.entry
    /\ hasExpected' = r.hasExpected
    /\ illegalInstr' = r.illegalInstr
    /\ lastStatus' = status
    /\ execCalls' = execCalls + 1
    /\ iteration' = iteration + 1
    /\ log' = IF iteration + 1 > maxAttempts(instr)
              THEN Append(log, LogLine("impossible", targetIdx))
              ELSE log
    /\ pc' = IF iteration + 1 > maxAttempts(instr) \/ r.hasExpected \/ r.illegalInstr
             THEN "after"
             ELSE "loop"
    /\ UNCHANGED << parVars, instr, testMatrix, testGroups, targetIdx, entries, illegalInstruction, pushed >>

\* One pass of the while body in which execute() returned true with the given
\* status and resulting context.
LoopBody(staged, status, c) ==
    Commit(staged.gens, status, c, Classify(status, c, staged.entry))

Executed(staged, res) == LoopBody(staged, res.status, res.ctx)

Faulted(staged, status) == LoopBody(staged, status, staged.ctx)

RunStaged(staged) == Executed(staged, Run(instr, staged.ctx))

\* An iteration in which the processor runs the instruction.
IterateRun ==
    /\ pc = "loop"
    /\ \E prngFlags \in SUBSET getFlagsRead(instr) : RunStaged(Staged(prngFlags))
    /\ UNCHANGED otherFaults

\* An iteration in which the context reports an illegal instruction.
IterateIllegal ==
    /\ pc = "loop"
    /\ \E prngFlags \in SUBSET getFlagsRead(instr) :
          Faulted(Staged(prngFlags), "IllegalInstruction")
    /\ UNCHANGED otherFaults

\* An iteration in which the context reports some other failure status.
IterateOtherStatus ==
    /\ pc = "loop"
    /\ otherFaults < MaxOtherFaults
    /\ otherFaults' = otherFaults + 1
    /\ \E prngFlags \in SUBSET getFlagsRead(instr) : Faulted(Staged(prngFlags), "Other")

ExecuteFailed(staged) ==
    /\ ctx' = staged.ctx
    /\ inputGenerators' = staged.gens
    /\ testEntry' = staged.entry

\* A failing execute() that also throws away the entries pushed so far.
IterateExecuteFails_DropsEntries ==
    /\ pc = "loop"
    /\ \E prngFlags \in SUBSET getFlagsRead(instr) : ExecuteFailed(Staged(prngFlags))
    /\ execCalls' = execCalls + 1
    /\ log' = Append(log, LogLine("execute_failed", targetIdx))
    /\ pc' = "dedup"
    /\ entries' = << >>
    /\ UNCHANGED << parVars, instr, testMatrix, testGroups, targetIdx, hasExpected, illegalInstr, iteration,
                    illegalInstruction, lastStatus, otherFaults, pushed >>

\* An iteration in which execute() returns false: testInstruction returns.
IterateExecuteFails ==
    /\ pc = "loop"
    /\ \E prngFlags \in SUBSET getFlagsRead(instr) : ExecuteFailed(Staged(prngFlags))
    /\ execCalls' = execCalls + 1
    /\ log' = Append(log, LogLine("execute_failed", targetIdx))
    /\ pc' = "dedup"
    /\ UNCHANGED << parVars, instr, testMatrix, testGroups, targetIdx, hasExpected, illegalInstr, iteration, entries,
                    illegalInstruction, lastStatus, otherFaults, pushed >>

\* The code after the while loop, then the next target.
EndTarget ==
    /\ pc = "after"
    /\ IF illegalInstr
       THEN /\ log' = Append(log, LogLine("illegal", targetIdx))
            /\ illegalInstruction' = TRUE
            /\ pc' = "dedup"
            /\ UNCHANGED << targetIdx, testEntry, inputGenerators, hasExpected,
                            illegalInstr, iteration, execCalls, entries, pushed >>
       ELSE /\ IF hasExpected
               THEN /\ entries' = Append(entries, testEntry)
                    /\ pushed' = Append(pushed, [target |-> targetIdx, status |-> lastStatus,
                                                 iteration |-> iteration, entry |-> testEntry])
               ELSE UNCHANGED << entries, pushed >>
            /\ BeginTarget(targetIdx + 1)
            /\ UNCHANGED << log, illegalInstruction >>
    /\ UNCHANGED << parVars, instr, testMatrix, testGroups, ctx, lastStatus, otherFaults >>

\* generateInstructionTestData after testInstruction: sort, unique, erase.
RemoveDuplicates ==
    /\ pc = "dedup"
    /\ entries' = UniqueEntries(SortEntries(entries))
    /\ pc' = "done"
    /\ UNCHANGED << parVars, instr, testMatrix, testGroups, targetIdx, testEntry, inputGenerators, hasExpected,
                    illegalInstr, iteration, ctx, illegalInstruction, log, lastStatus,
                    execCalls, otherFaults, pushed >>

\* InstrTestGroup as generateInstructionTestData returns it.
InstrTestGroup(instrData, groupEntries, illegal) ==
    [instrData |-> instrData, entries |-> groupEntries, illegalInstruction |-> illegal]

\* A group that lacks entries or is flagged illegal is not collected.
\* The condition without the illegal flag:
Survives_NonEmpty(testCase) == testCase.entries # << >>

\* The condition under which the worker pushes a group to testGroups.
Survives(testCase) == testCase.entries # << >> /\ ~testCase.illegalInstruction

\* The worker's code after generateInstructionTestData returned.
Collect ==
    /\ pc = "done"
    /\ pc' = "collected"
    /\ testGroups' = IF Survives(InstrTestGroup(instr, entries, illegalInstruction))
                     THEN Append(testGroups, InstrTestGroup(instr, entries, illegalInstruction))
                     ELSE testGroups
    /\ UNCHANGED << parVars, instr, testMatrix, targetIdx, testEntry, inputGenerators, hasExpected,
                    illegalInstr, iteration, ctx, entries, illegalInstruction, log,
                    lastStatus, execCalls, otherFaults, pushed >>

\* ---------------------------------------------------------------------------
\* generateInstrTests: worker threads, collection, sort, bucket, save
\* ---------------------------------------------------------------------------
NumWorkers == 2
MaxFaultAt == 2

Workers == 1..NumWorkers

\* The corpora of a mnemonic that generateInstrTests is run on.
Corpora ==
    { << InstrMovEaxImm, InstrMovAhImm, InstrMovClImm >>, << InstrSetzAl, InstrSetzCl >>,
      << InstrCmc >> }

Faults ==
    { NoFault, [kind |-> "prepare", at |-> 0] }
        \cup { [kind |-> k, at |-> a] : k \in { "execute", "illegal" }, a \in 1..MaxFaultAt }

\* InstrTestGroup{}
NoGroup == InstrTestGroup(MkInstr("INVALID", << >>, NoFlags, 0), << >>, FALSE)

NoRun ==
    [done |-> FALSE, by |-> 0, group |-> NoGroup, ended |-> "", calls |-> 0,
     lastTarget |-> 0, trace |-> << >>]

IdleWorker == [pc |-> "idle", cur |-> 0, testCase |-> NoGroup, end |-> 0]

\* No corpus is being processed: the search loop is run on its own.
\* main is not running.
NoMain ==
    /\ debug = FALSE
    /\ tableIdx = 1
    /\ generated = << >>

NoCorpus ==
    /\ corpus = << >>
    /\ faults = << >>
    /\ nextInstr = 1
    /\ worker = [w \in Workers |-> IdleWorker]
    /\ mtx = 0
    /\ curInstr = 0
    /\ runs = << >>
    /\ prngLeft = PrngNew(0)
    /\ mainPc = "finished"
    /\ testGroupsMap = << >>
    /\ file = << >>
    /\ NoMain

\* generateInstrTests up to forEachParallel, on a corpus of one mnemonic.
InitPar ==
    /\ InitOn({ InstrClc })
    /\ corpus \in Corpora
    /\ faults \in [1..Len(corpus) -> Faults]
    /\ nextInstr = 1
    /\ worker = [w \in Workers |-> IdleWorker]
    /\ mtx = 0
    /\ curInstr = 0
    /\ runs = [k \in 1..Len(corpus) |-> NoRun]
    /\ prngLeft = PrngNew(MnemonicId(corpus[1].mnemonic))
    /\ mainPc = "parallel"
    /\ testGroupsMap = << >>
    /\ file = << >>
    /\ NoMain

\* forEachParallel hands the next encoding of the corpus to an idle worker.
TakeEncoding(w) ==
    /\ mainPc = "parallel"
    /\ worker[w].pc = "idle"
    /\ nextInstr <= Len(corpus)
    /\ worker' = [worker EXCEPT ![w] = [@ EXCEPT !.pc = "test", !.cur = nextInstr]]
    /\ nextInstr' = nextInstr + 1
    /\ UNCHANGED << searchVars, mainVars, testGroups, corpus, faults, mtx, curInstr, runs, prngLeft,
                    mainPc, testGroupsMap, file >>

\* A PRNG that is one object shared by all runs instead of a local of
\* testInstruction.
PrngOf_Shared(i, left) == left

\* The PRNG testInstruction runs with: a local, seeded with the mnemonic.
PrngOf(i, left) == PrngNew(MnemonicId(i.mnemonic))

Tested(w, k, run) ==
    /\ worker' = [worker EXCEPT ![w] =
                    [@ EXCEPT !.testCase = InstrTestGroup(corpus[k], run.entries,
                                                          run.illegalInstruction),
                              !.pc = IF Survives(InstrTestGroup(corpus[k], run.entries,
                                                                run.illegalInstruction))
                                     THEN "lock" ELSE "progress"]]
    /\ runs' = [runs EXCEPT ![k] =
                    [done |-> TRUE, by |-> w,
                     group |-> InstrTestGroup(corpus[k], run.entries, run.illegalInstruction),
                     ended |-> run.ended, calls |-> run.calls,
                     lastTarget |-> run.lastTarget, trace |-> run.trace]]
    /\ prngLeft' = run.prng

\* The lambda up to the if: generateInstructionTestData on the worker's encoding.
TestEncoding(w) ==
    /\ worker[w].pc = "test"
    /\ Tested(w, worker[w].cur,
              generateInstructionTestData(corpus[worker[w].cur], faults[worker[w].cur],
                                          PrngOf(corpus[worker[w].cur], prngLeft)))
    /\ UNCHANGED << searchVars, mainVars, testGroups, corpus, faults, nextInstr, mtx, curInstr,
                    mainPc, testGroupsMap, file >>

\* A lock that never blocks.
CanLock_Always(owner) == TRUE

\* std::mutex: lock() returns only when no thread owns the mutex.
CanLock(owner) == owner = 0

\* std::lock_guard lock(mtx)
Lock(w) ==
    /\ worker[w].pc = "lock"
    /\ CanLock(mtx)
    /\ mtx' = w
    /\ worker' = [worker EXCEPT ![w] = [@ EXCEPT !.pc = "push"]]
    /\ UNCHANGED << searchVars, mainVars, testGroups, corpus, faults, nextInstr, curInstr, runs,
                    prngLeft, mainPc, testGroupsMap, file >>

\* testGroups.push_back, first half: the end of the vector is read.
PushBegin(w) ==
    /\ worker[w].pc = "push"
    /\ worker' = [worker EXCEPT ![w] = [@ EXCEPT !.pc = "write", !.end = Len(testGroups)]]
    /\ UNCHANGED << searchVars, mainVars, testGroups, corpus, faults, nextInstr, mtx, curInstr, runs,
                    prngLeft, mainPc, testGroupsMap, file >>

\* testGroups.push_back, second half: the group is moved to the end read before
\* and the end is advanced past it.
PushEnd(w) ==
    /\ worker[w].pc = "write"
    /\ testGroups' = [k \in 1..(worker[w].end + 1) |->
                        IF k = worker[w].end + 1 THEN worker[w].testCase ELSE testGroups[k]]
    /\ worker' = [worker EXCEPT ![w] = [@ EXCEPT !.pc = "unlock", !.testCase = NoGroup]]
    /\ UNCHANGED << searchVars, mainVars, corpus, faults, nextInstr, mtx, curInstr, runs, prngLeft,
                    mainPc, testGroupsMap, file >>

\* The lock_guard goes out of scope.
Unlock(w) ==
    /\ worker[w].pc = "unlock"
    /\ mtx' = 0
    /\ worker' = [worker EXCEPT ![w] = [@ EXCEPT !.pc = "progress"]]
    /\ UNCHANGED << searchVars, mainVars, testGroups, corpus, faults, nextInstr, curInstr, runs,
                    prngLeft, mainPc, testGroupsMap, file >>

\* Logging::updateProgress(++curInstr, numInstrs); the lambda returns.
Progress(w) ==
    /\ worker[w].pc = "progress"
    /\ curInstr' = curInstr + 1
    /\ worker' = [worker EXCEPT ![w] = IdleWorker]
    /\ UNCHANGED << searchVars, mainVars, testGroups, corpus, faults, nextInstr, mtx, runs, prngLeft,
                    mainPc, testGroupsMap, file >>

\* forEachParallel returns when the lambda has returned for every encoding.
Join ==
    /\ mainPc = "parallel"
    /\ nextInstr > Len(corpus)
    /\ \A w \in Workers : worker[w].pc = "idle"
    /\ mainPc' = "sort"
    /\ UNCHANGED << searchVars, mainVars, testGroups, corpus, faults, nextInstr, worker, mtx, curInstr,
                    runs, prngLeft, testGroupsMap, file >>

\* The comparator of the sort: the decoded operand widths.
WidthLess(a, b) == a.instrData.operand_width < b.instrData.operand_width

\* Insertion of g before the first group that is not less than it.
InsertGroup(g, sorted) ==
    LET before == { k \in 1..Len(sorted) : WidthLess(sorted[k], g) }
    IN SubSeq(sorted, 1, Cardinality(before)) \o << g >>
          \o SubSeq(sorted, Cardinality(before) + 1, Len(sorted))

\* The groups left in the order the workers pushed them.
SortGroups_PushOrder(groups) == groups

\* std::sort(testGroups.begin(), testGroups.end(), by operand width): on a short
\* range the library sorts by insertion, so groups of equal width keep the
\* order they had.
RECURSIVE SortGroups(_)
SortGroups(groups) ==
    IF groups = << >> THEN << >>
    ELSE InsertGroup(Head(groups), SortGroups(Tail(groups)))

SortTestGroups ==
    /\ mainPc = "sort"
    /\ testGroups' = SortGroups(testGroups)
    /\ mainPc' = "bucket"
    /\ UNCHANGED << searchVars, mainVars, corpus, faults, nextInstr, worker, mtx, curInstr, runs,
                    prngLeft, testGroupsMap, file >>

\* "Group the test cases by instruction": std::map from mnemonic to the groups
\* of that mnemonic, in the order of testGroups.
GroupByMnemonic(groups) ==
    [m \in { groups[k].instrData.mnemonic : k \in 1..Len(groups) } |->
        SelectSeq(groups, LAMBDA g : g.instrData.mnemonic = m)]

Bucket ==
    /\ mainPc = "bucket"
    /\ testGroupsMap' = GroupByMnemonic(testGroups)
    /\ mainPc' = "save"
    /\ UNCHANGED << searchVars, mainVars, testGroups, corpus, faults, nextInstr, worker, mtx, curInstr,
                    runs, prngLeft, file >>

\* One token of a line of the file.
Lit(text) == [kind |-> "lit", name |-> text, bytes |-> << >>]

\* "{}{}:#{}" for every register of a flat map, then "{}flags:#{}".
RECURSIVE Items(_, _, _)
Items(pairs, k, optFlags) ==
    IF k <= Len(pairs)
    THEN (IF k > 1 THEN << Lit(",") >> ELSE << >>)
            \o << [kind |-> "reg", name |-> pairs[k][1], bytes |-> pairs[k][2]] >>
            \o Items(pairs, k + 1, optFlags)
    ELSE IF optFlags.has
         THEN (IF Len(pairs) > 0 THEN << Lit(",") >> ELSE << >>)
                 \o << [kind |-> "flags", name |-> "flags", bytes |-> FlagsBytes(optFlags.val, 4)] >>
         ELSE << >>

getExceptionString(exception) ==
    CASE exception = "None" -> "NONE"
      [] exception = "DivideError" -> "INT_DIVIDE_ERROR"
      [] exception = "IntegerOverflow" -> "INT_OVERFLOW"
      [] OTHER -> "<ERROR>"

\* The line of one entry.
EntryLine(e) ==
    << Lit(" in:") >> \o Items(MapPairs(e.inputRegs), 1, e.inputFlags)
        \o (IF DOMAIN e.inputRegs # {} THEN << Lit("|") >> ELSE << >>)
        \o << Lit("out:") >> \o Items(MapPairs(e.outputRegs), 1, e.outputFlags)
        \o (IF e.exceptionType.has
            THEN << Lit("|exception:"), Lit(getExceptionString(e.exceptionType.val)) >>
            ELSE << >>)

\* The "instr:" line of a group (the encoding as its text, then the number of
\* entries) and the lines of its entries.
GroupLines(g) ==
    << << Lit("instr:"), Lit(g.instrData.mnemonic) >>
          \o [k \in 1..Len(g.instrData.operands) |->
                [kind |-> "operand", name |-> g.instrData.operands[k].reg,
                 bytes |-> << g.instrData.operands[k].imm >>]]
          \o << [kind |-> "count", name |-> "", bytes |-> << Len(g.entries) >>] >> >>
        \o [k \in 1..Len(g.entries) |-> EntryLine(g.entries[k])]

\* serializeTestEntries: the lines written for the groups of one mnemonic.
RECURSIVE serializeTestEntries(_)
serializeTestEntries(groups) ==
    IF groups = << >> THEN << >>
    ELSE GroupLines(Head(groups)) \o serializeTestEntries(Tail(groups))

\* "Save to file": one file per mnemonic of the map.
Save ==
    /\ mainPc = "save"
    /\ file' = [m \in DOMAIN testGroupsMap |-> serializeTestEntries(testGroupsMap[m])]
    /\ mainPc' = "finished"
    /\ UNCHANGED << searchVars, mainVars, testGroups, corpus, faults, nextInstr, worker, mtx, curInstr,
                    runs, prngLeft, testGroupsMap >>

NextPar ==
    \/ \E w \in Workers : TakeEncoding(w)
    \/ \E w \in Workers : TestEncoding(w)
    \/ \E w \in Workers : Lock(w)
    \/ \E w \in Workers : PushBegin(w)
    \/ \E w \in Workers : PushEnd(w)
    \/ \E w \in Workers : Unlock(w)
    \/ \E w \in Workers : Progress(w)
    \/ Join
    \/ SortTestGroups
    \/ Bucket
    \/ Save

Next ==
    \/ PrepareContext
    \/ PrepareFails
    \/ IterateRun
    \/ IterateIllegal
    \/ IterateOtherStatus
    \/ IterateExecuteFails
    \/ EndTarget
    \/ RemoveDuplicates
    \/ Collect

Init == InitOn(ShortEncodings) /\ NoCorpus

Spec == Init /\ [][Next]_vars

\* The worker thread runs testInstruction and what follows it without being
\* suspended for ever: weak fairness of Next. A step that changes the state is
\* possible exactly while the result has not been collected, so that
\* ENABLED <<Next>>_vars is written out as pc # "collected".
Unsuspended == []<>(pc = "collected") \/ []<><<Next>>_vars

SpecFair == Init /\ [][Next]_vars /\ Unsuspended

\* The same program run on the DIV encoding.
InitDiv == InitOn({ InstrDivCl }) /\ NoCorpus

SpecDiv == InitDiv /\ [][Next]_vars

\* generateInstrTests on a corpus, with worker threads.
SpecPar == InitPar /\ [][NextPar]_vars

\* ---------------------------------------------------------------------------
\* generateTestMatrix on the decoded forms of LEA, BTR, SETcc and the flag
\* instructions
\* ---------------------------------------------------------------------------
\* The address registers of an address width.
AddrRegs(aw) == IF aw = 32 THEN {"EAX", "ECX"} ELSE {"RAX", "RCX"}

\* LEA dest, [b + i*s + d] decoded with address width aw; the decoder reports
\* scale 0 when there is no index register.
Lea(dest, b, i, s, d, aw) ==
    [MkInstr("LEA", << RegOp(dest, {"WRITE"}), MemOp(b, i, s, d) >>, NoFlags,
             ZydisRegisterGetWidth(dest))
        EXCEPT !.address_width = aw]

LeaEncodings ==
    { Lea(dest, b, i, s, d, aw) :
        dest \in {"ECX", "RCX"}, b \in Regs, i \in Regs, s \in {0, 1, 2, 4, 8},
        d \in {0, 8}, aw \in {32, 64} }

\* The LEA forms the decoder produces over the address registers.
LeaDecoded ==
    { e \in LeaEncodings :
        /\ Op(e, 1).base \in AddrRegs(e.address_width) \cup {"NONE"}
        /\ Op(e, 1).index \in AddrRegs(e.address_width) \cup {"NONE"}
        /\ (Op(e, 1).index = "NONE") <=> (Op(e, 1).scale = 0) }

\* BTR dest, imm8: CF receives the selected bit.
Btr(dest, imm) ==
    MkInstr("BTR", << RegOp(dest, {"READ", "WRITE"}), ImmOp(imm),
                      RegOp("RFLAGS", {"WRITE"}) >>,
            [NoFlags EXCEPT !.modified = {ZYDIS_CPUFLAG_CF}],
            ZydisRegisterGetWidth(dest))

BtrImms == {0, 1, 7, 15, 16, 17, 31, 32, 33, 63, 64, 65, 255}

BtrEncodings == { Btr(dest, imm) : dest \in {"AX", "EAX", "RAX"}, imm \in BtrImms }

\* The flags a SETcc condition tests.
SetccTested(m) ==
    CASE m \in {"SETB", "SETNB"} -> {ZYDIS_CPUFLAG_CF}
      [] m \in {"SETBE", "SETNBE"} -> {ZYDIS_CPUFLAG_CF, ZYDIS_CPUFLAG_ZF}
      [] m \in {"SETL", "SETNL"} -> {ZYDIS_CPUFLAG_SF, ZYDIS_CPUFLAG_OF}
      [] m \in {"SETLE", "SETNLE"} -> {ZYDIS_CPUFLAG_ZF, ZYDIS_CPUFLAG_SF, ZYDIS_CPUFLAG_OF}
      [] m \in {"SETO", "SETNO"} -> {ZYDIS_CPUFLAG_OF}
      [] m \in {"SETP", "SETNP"} -> {ZYDIS_CPUFLAG_PF}
      [] m \in {"SETS", "SETNS"} -> {ZYDIS_CPUFLAG_SF}
      [] OTHER -> {ZYDIS_CPUFLAG_ZF}

Setcc(m, dest) ==
    MkInstr(m, << RegOp(dest, {"WRITE"}), RegOp("RFLAGS", {"READ"}) >>,
            [NoFlags EXCEPT !.tested = SetccTested(m)], 8)

SetccEncodings == { Setcc(m, dest) : m \in SetccMnemonics, dest \in {"AL", "CL", "AH", "CH"} }

\* STC
InstrStc ==
    MkInstr("STC", << RegOp("RFLAGS", {"WRITE"}) >>,
            [NoFlags EXCEPT !.set_1 = {ZYDIS_CPUFLAG_CF}], 32)

\* IMUL EAX, ECX, 16  (CF and OF follow the product, the other status flags are
\* left undefined)
InstrImulEaxEcxImm ==
    MkInstr("IMUL", << RegOp("EAX", {"WRITE"}), RegOp("ECX", {"READ"}), ImmOp(16),
                       RegOp("RFLAGS", {"WRITE"}) >>,
            [NoFlags EXCEPT !.modified = {ZYDIS_CPUFLAG_CF, ZYDIS_CPUFLAG_OF}], 32)

\* XCHG AH, AL
InstrXchgAhAl ==
    MkInstr("XCHG", << RegOp("AH", {"READ", "WRITE"}), RegOp("AL", {"READ", "WRITE"}) >>,
            NoFlags, 8)

MatrixEncodings ==
    LeaDecoded \cup BtrEncodings \cup SetccEncodings \cup Encodings
    \cup { InstrStc, InstrImulEaxEcxImm, InstrXchgAhAl }

InitMatrix ==
    /\ instr \in MatrixEncodings
    /\ testMatrix = << >>
    /\ testGroups = << >>
    /\ pc = "matrix"
    /\ targetIdx = 1
    /\ testEntry = EmptyEntry
    /\ inputGenerators = << >>
    /\ hasExpected = FALSE
    /\ illegalInstr = FALSE
    /\ iteration = 0
    /\ ctx = InitCtx
    /\ entries = << >>
    /\ illegalInstruction = FALSE
    /\ log = << >>
    /\ lastStatus = "Success"
    /\ execCalls = 0
    /\ otherFaults = 0
    /\ pushed = << >>
    /\ NoCorpus

\* const auto testMatrix = generateTestMatrix(instr);
BuildMatrix ==
    /\ pc = "matrix"
    /\ testMatrix' = generateTestMatrix(instr)
    /\ pc' = "built"
    /\ UNCHANGED << instr, testGroups, targetIdx, testEntry, inputGenerators, hasExpected,
                    illegalInstr, iteration, ctx, entries, illegalInstruction, log,
                    lastStatus, execCalls, otherFaults, pushed, parVars >>

NextMatrix == BuildMatrix

SpecMatrix == InitMatrix /\ [][NextMatrix]_vars

\* ---------------------------------------------------------------------------
\* advanceInputs called once per iteration of a search that keeps missing
\* ---------------------------------------------------------------------------
\* VCVTSI2SD XMM0, XMM1, RAX
InstrVcvtsi2sd ==
    MkInstr("VCVTSI2SD", << RegOp("XMM0", {"WRITE"}), RegOp("XMM1", {"READ"}),
                            RegOp("RAX", {"READ"}) >>, NoFlags, 64)

\* VPSLLQ YMM0, YMM0, XMM0  (the shift count is read from XMM0)
InstrVpsllq ==
    MkInstr("VPSLLQ", << RegOp("YMM0", {"WRITE"}), RegOp("YMM0", {"READ"}),
                         RegOp("XMM0", {"READ"}) >>, NoFlags, 64)

AdvanceEncodings ==
    LeaDecoded
    \cup { InstrDivCl, InstrPtest, InstrCmc, InstrSetzAl, InstrVcvtsi2sd, InstrXchgAhAl,
           InstrVpsllq }

InitAdvance ==
    /\ instr \in AdvanceEncodings
    /\ testMatrix = generateTestMatrix(instr)
    /\ testGroups = << >>
    /\ pc = "advance"
    /\ targetIdx = 1
    /\ testEntry = EmptyEntry
    /\ inputGenerators = setupInputGenerators(instr)
    /\ hasExpected = FALSE
    /\ illegalInstr = FALSE
    /\ iteration = 0
    /\ ctx = InitCtx
    /\ entries = << >>
    /\ illegalInstruction = FALSE
    /\ log = << >>
    /\ lastStatus = "Success"
    /\ execCalls = 0
    /\ otherFaults = 0
    /\ pushed = << >>
    /\ NoCorpus

\* advanceInputs(ctx, prng, inputGenerators, instr, testEntry, iteration) of a
\* pass that does not end the loop, followed by iteration++.
AdvanceOnce(staged) ==
    /\ ctx' = staged.ctx
    /\ inputGenerators' = staged.gens
    /\ testEntry' = staged.entry
    /\ iteration' = iteration + 1
    /\ pc' = IF iteration + 1 > maxAttempts(instr) THEN "advanced" ELSE "advance"
    /\ UNCHANGED << instr, testMatrix, testGroups, targetIdx, hasExpected, illegalInstr,
                    entries, illegalInstruction, log, lastStatus, execCalls, otherFaults,
                    pushed, parVars >>

AdvanceInputs ==
    /\ pc = "advance"
    /\ \E prngFlags \in SUBSET getFlagsRead(instr) :
          AdvanceOnce(advanceInputs(ctx, inputGenerators, instr, testEntry, iteration,
                                    prngFlags))

NextAdvance == AdvanceInputs

SpecAdvance == InitAdvance /\ [][NextAdvance]_vars

\* ---------------------------------------------------------------------------
\* main: one call of generateInstrTests per mnemonic
\* ---------------------------------------------------------------------------
MaxEntries == 2

\* Entries of the table const ZydisMnemonic mnemonics[] of main, in table order:
\* its first and last entry, SHL, and five of the entries between them.
mnemonics == << "AAA", "CLI", "ENTER", "INT3", "MOVSB", "SHL", "WRMSR", "XTEST" >>

\* The kind of instruction a mnemonic of the table names.
Category(m) ==
    CASE m = "CLI" -> "privileged"
      [] m = "WRMSR" -> "privileged"
      [] m = "ENTER" -> "stack"
      [] m = "INT3" -> "control-transfer"
      [] m = "MOVSB" -> "string"
      [] OTHER -> "computational"

\* The calls of generateInstrTests main makes: #ifdef _DEBUG the one for SHL,
\* #else one per entry of the table.
Calls == IF debug THEN << "SHL" >> ELSE mnemonics

\* std::filesystem::exists(filePath)
FileExists_Never(m) == FALSE

FileExists(m) == m \in DOMAIN file

\* The skip of generateInstrTests, compiled #ifndef _DEBUG.
Skips(m) == ~debug /\ FileExists(m)

\* What serializeTestEntries writes for the sorted groups of mnemonic m, by the
\* number of entries of its group.
WrittenFile(m, n) ==
    << << Lit("instr:"), Lit(m), [kind |-> "count", name |-> "", bytes |-> << n >>] >> >>

InitMain ==
    /\ InitOn({ InstrClc })
    /\ corpus = << >>
    /\ faults = << >>
    /\ nextInstr = 1
    /\ worker = [w \in Workers |-> IdleWorker]
    /\ mtx = 0
    /\ curInstr = 0
    /\ runs = << >>
    /\ prngLeft = PrngNew(0)
    /\ mainPc = "main"
    /\ testGroupsMap = << >>
    /\ \E ms \in SUBSET { mnemonics[k] : k \in 1..Len(mnemonics) } :
          file = [m \in ms |-> WrittenFile(m, 1)]
    /\ debug \in BOOLEAN
    /\ tableIdx = 1
    /\ generated = << >>

\* generateInstrTests returns at "Skipping ... as it already exists".
SkipExisting ==
    /\ mainPc = "main"
    /\ tableIdx <= Len(Calls)
    /\ Skips(Calls[tableIdx])
    /\ tableIdx' = tableIdx + 1
    /\ UNCHANGED << searchVars, testGroups, corpus, faults, nextInstr, worker, mtx, curInstr,
                    runs, prngLeft, mainPc, testGroupsMap, file, debug, generated >>

\* generateInstrTests builds the encodings, runs them, and saves the file of
\* the mnemonic when a group survives (n entries), none otherwise (n = 0).
Generate ==
    /\ mainPc = "main"
    /\ tableIdx <= Len(Calls)
    /\ ~Skips(Calls[tableIdx])
    /\ generated' = Append(generated, Calls[tableIdx])
    /\ \E n \in 0..MaxEntries :
          file' = IF n = 0 THEN file
                  ELSE [m \in DOMAIN file \cup { Calls[tableIdx] } |->
                          IF m = Calls[tableIdx] THEN WrittenFile(m, n) ELSE file[m]]
    /\ tableIdx' = tableIdx + 1
    /\ UNCHANGED << searchVars, testGroups, corpus, faults, nextInstr, worker, mtx, curInstr,
                    runs, prngLeft, mainPc, testGroupsMap, debug >>

\* return EXIT_SUCCESS;
Exit ==
    /\ mainPc = "main"
    /\ tableIdx > Len(Calls)
    /\ mainPc' = "finished"
    /\ UNCHANGED << searchVars, testGroups, corpus, faults, nextInstr, worker, mtx, curInstr,
                    runs, prngLeft, testGroupsMap, file, mainVars >>

NextMain ==
    \/ SkipExisting
    \/ Generate
    \/ Exit

SpecMain == InitMain /\ [][NextMain]_vars

\* ---------------------------------------------------------------------------
\* The cleanse loop of advanceInputs on its own, over contexts left by earlier
\* iterations
\* ---------------------------------------------------------------------------

\* VPADDD ZMM0, ZMM0, ZMM1
InstrVpadddZmm ==
    MkInstr("VPADDD", << RegOp("ZMM0", {"WRITE"}), RegOp("ZMM0", {"READ"}),
                         RegOp("ZMM1", {"READ"}) >>, NoFlags, 64)

CleanseEncodings == AdvanceEncodings \cup { InstrVpadddZmm }

\* regsReadBig in the order the flat set iterates.
regsReadBig(i) == FlatSetSeq(RootsOf(getRegsRead(i)))

\* What lies behind the table is not the program's to choose: each of the
\* thirty-two bytes after it is taken to be any one of these values.
BeyondBytes == { 0, 204, 255 }

BeyondTable == { Fill(b, Len(ccBytes)) : b \in BeyondBytes }

\* The register contents an earlier iteration left behind.
LeftBytes == { 0, 1, 255 }

InitCleanse ==
    /\ instr \in CleanseEncodings
    /\ testMatrix = << >>
    /\ testGroups = << >>
    /\ pc = "cleanse"
    /\ targetIdx = 1
    /\ testEntry = EmptyEntry
    /\ inputGenerators = << >>
    /\ hasExpected = FALSE
    /\ illegalInstr = FALSE
    /\ iteration = 0
    /\ \E b \in LeftBytes :
          ctx = [InitCtx EXCEPT !.regs = [r \in CtxRegs |->
                                             Fill(b, ZydisRegisterGetWidth(r) \div 8)]]
    /\ entries = << >>
    /\ illegalInstruction = FALSE
    /\ log = << >>
    /\ lastStatus = "Success"
    /\ execCalls = 0
    /\ otherFaults = 0
    /\ pushed = << >>
    /\ NoCorpus

\* One pass of "for (const auto& reg : regsReadBig)"; execCalls counts the
\* roots the loop has passed.
CleanseOne ==
    /\ pc = "cleanse"
    /\ execCalls < Len(regsReadBig(instr))
    /\ \E beyond \in BeyondTable :
          ctx' = CleanseReg(ctx, regsReadBig(instr)[execCalls + 1], beyond)
    /\ execCalls' = execCalls + 1
    /\ UNCHANGED << instr, testMatrix, testGroups, pc, targetIdx, testEntry,
                    inputGenerators, hasExpected, illegalInstr, iteration, entries,
                    illegalInstruction, log, lastStatus, otherFaults, pushed, parVars >>

\* The loop is over.
CleanseDone ==
    /\ pc = "cleanse"
    /\ execCalls = Len(regsReadBig(instr))
    /\ pc' = "cleansed"
    /\ UNCHANGED << instr, testMatrix, testGroups, targetIdx, testEntry, inputGenerators,
                    hasExpected, illegalInstr, iteration, ctx, entries,
                    illegalInstruction, log, lastStatus, execCalls, otherFaults, pushed,
                    parVars >>

NextCleanse == CleanseOne \/ CleanseDone

SpecCleanse == InitCleanse /\ [][NextCleanse]_vars

\* ---------------------------------------------------------------------------
\* The same-register forms executed once on every input value
\* ---------------------------------------------------------------------------
\* ADD AL, AL
InstrAddAlAl ==
    MkInstr("ADD", << RegOp("AL", {"READ", "WRITE"}), RegOp("AL", {"READ"}),
                      RegOp("RFLAGS", {"WRITE"}) >>,
            [NoFlags EXCEPT !.modified = StatusFlags], 8)

\* SUB AL, AL
InstrSubAlAl ==
    MkInstr("SUB", << RegOp("AL", {"READ", "WRITE"}), RegOp("AL", {"READ"}),
                      RegOp("RFLAGS", {"WRITE"}) >>,
            [NoFlags EXCEPT !.modified = StatusFlags], 8)

SameRegEncodings == { InstrAddAlAl, InstrSubAlAl, InstrXorAlAl }

\* Every value of AL, with the status flags all clear or all set beforehand.
InitSameReg ==
    /\ instr \in SameRegEncodings
    /\ testMatrix = generateTestMatrix(instr)
    /\ testGroups = << >>
    /\ pc = "staged"
    /\ targetIdx = 1
    /\ testEntry = EmptyEntry
    /\ inputGenerators = << >>
    /\ hasExpected = FALSE
    /\ illegalInstr = FALSE
    /\ iteration = 0
    /\ \E v \in 0..255, fl \in { {}, StatusFlags } :
          ctx = setEflags(setRegBytes(InitCtx, "RAX", << v >> \o Fill(0, 7)), fl \cup ForcedFlags)
    /\ entries = << >>
    /\ illegalInstruction = FALSE
    /\ log = << >>
    /\ lastStatus = "Success"
    /\ execCalls = 0
    /\ otherFaults = 0
    /\ pushed = << >>
    /\ NoCorpus

\* ctx.execute()
ExecuteSameReg ==
    /\ pc = "staged"
    /\ ctx' = Run(instr, ctx).ctx
    /\ lastStatus' = Run(instr, ctx).status
    /\ execCalls' = execCalls + 1
    /\ pc' = "executed"
    /\ UNCHANGED << instr, testMatrix, testGroups, targetIdx, testEntry, inputGenerators,
                    hasExpected, illegalInstr, iteration, entries, illegalInstruction, log,
                    otherFaults, pushed, parVars >>

NextSameReg == ExecuteSameReg

SpecSameReg == InitSameReg /\ [][NextSameReg]_vars

\* ---------------------------------------------------------------------------
\* Properties
\* ---------------------------------------------------------------------------
Range(seq) == { seq[k] : k \in 1..Len(seq) }

\* The lines the run logged as "Test probably impossible" are for these targets.
LoggedImpossible == { l.target : l \in { x \in Range(log) : x.kind = "impossible" } }

WasLogged(kind) == \E l \in Range(log) : l.kind = kind

\* C1: in the group returned by generateInstructionTestData no two entries are
\* equal field by field, and the entries are strictly ascending in the entry order.
C1_EntriesSortedDistinct ==
    pc = "done" =>
        \A i, j \in 1..Len(entries) :
            i < j => /\ EntryLess(entries[i], entries[j])
                     /\ ~EntryEq(entries[i], entries[j])

\* A finished group from which duplicates were erased, that keeps two entries,
\* and whose pushes were out of order.
C1_Witness ==
    /\ pc = "done"
    /\ Len(entries) >= 2
    /\ Len(pushed) > Len(entries)
    /\ \E i \in 1..(Len(pushed) - 1) : EntryLess(pushed[i + 1].entry, pushed[i].entry)

\* C2: every entry pushed for a target without exception on a non-flags
\* register holds the target's root in output_regs, and the target bit of that
\* buffer has the expected value, whatever status the hitting iteration returned.
C2_PushedOutputBitExpected ==
    \A p \in Range(pushed) :
        LET t == testMatrix[p.target]
            root == ZydisRegisterGetLargestEnclosing(t.reg)
        IN (t.exceptionType = "None" /\ ~isRegFiltered(t.reg)) =>
              /\ root \in DOMAIN p.entry.outputRegs
              /\ Bit(p.entry.outputRegs[root][getRegOffset(t.reg) + (t.bitPos \div 8) + 1],
                     t.bitPos % 8) = t.expectedBitValue

\* C3: every entry of a group has output_flags exactly when the modified-flags
\* mask of the instruction is non-zero, and then with the IF bit clear.
C3_OutputFlagsIffModified ==
    \A e \in Range(entries) :
        /\ e.outputFlags.has <=> (getFlagsModified(instr) # {})
        /\ e.outputFlags.has => ZYDIS_CPUFLAG_IF \notin e.outputFlags.val

\* C4: every entry of a group has input_flags exactly when the tested-flags
\* mask of the instruction is non-zero, after any number of retries.
C4_InputFlagsIffTested ==
    \A e \in Range(entries) \cup { p.entry : p \in Range(pushed) } :
        e.inputFlags.has <=> (getFlagsRead(instr) # {})

\* A finished group holding an entry with input flags that was hit on a retry,
\* reached for an instruction that tests a flag.
C4_Witness ==
    /\ pc = "done"
    /\ getFlagsRead(instr) # {}
    /\ \E p \in Range(pushed) :
          /\ p.iteration > 1
          /\ p.entry.inputFlags.has
          /\ \E e \in Range(entries) : EntryEq(e, p.entry)

\* C5 as stated: every key of input_regs is its own largest-enclosing register,
\* for general-purpose and vector registers alike.
C5_KeysAreLargestEnclosing ==
    \A e \in Range(entries) :
        \A r \in DOMAIN e.inputRegs : ZydisRegisterGetLargestEnclosing(r) = r

GprClasses == { "GPR8", "GPR16", "GPR32", "GPR64" }

\* C5 amended: a general-purpose key of input_regs is its own largest-enclosing
\* register; a key of any other class is the read operand register itself,
\* which for a vector register is not the largest enclosing one.
C5_GprKeysAreRoots ==
    \A e \in Range(entries) :
        \A r \in DOMAIN e.inputRegs :
            IF ZydisRegisterGetClass(r) \in GprClasses
            THEN ZydisRegisterGetLargestEnclosing(r) = r
            ELSE r \in Range(getRegsRead(instr))

\* A finished group with an entry keyed by the vector register XMM0, whose
\* largest enclosing register is another one.
C5_Witness ==
    /\ pc = "done"
    /\ \E e \in Range(entries) :
          /\ "XMM0" \in DOMAIN e.inputRegs
          /\ ZydisRegisterGetLargestEnclosing("XMM0") # "XMM0"

\* C6: for every key r of input_regs the byte vector is width_of(r) / 8 bytes
\* long, also when the staged alias is narrower than r.
C6_InputRegsRootWidth ==
    \A e \in Range(entries) :
        \A r \in DOMAIN e.inputRegs : Len(e.inputRegs[r]) = ZydisRegisterGetWidth(r) \div 8

\* A finished group with an entry whose key RAX was staged through the
\* 16-bit alias AX.
C6_Witness ==
    /\ pc = "done"
    /\ "AX" \in Range(getRegsRead(instr))
    /\ \E e \in Range(entries) : "RAX" \in DOMAIN e.inputRegs

\* The registers the decoder reports as read: register operands whose action
\* mask includes READ, and the base and index of memory operands.
DecoderReadRegs(i) ==
    UNION { IF op.type = "REGISTER" /\ "READ" \in op.actions THEN { op.reg }
            ELSE IF op.type = "MEMORY" THEN { op.base, op.index } \ { "NONE" }
            ELSE {} : op \in Range(i.operands) }

\* C7: every key of input_regs is the root of a register the decoder reports
\* as read, or of a memory operand's base or index; a register that is only
\* written never appears.
C7_InputRegsAreDecoderReads ==
    \A e \in Range(entries) :
        DOMAIN e.inputRegs \subseteq
            { getRootReg(r) : r \in DecoderReadRegs(instr) }

\* C8: for every target the retry loop calls execute() at most L times, L the
\* attempt budget of the instruction.
C8_ExecuteCallsWithinBudget == execCalls <= maxAttempts(instr)

\* C9: a target whose budget is exhausted is logged as probably impossible and
\* gets no entry; a target with a pushed entry is never logged so.
C9_PushedNeverLoggedImpossible ==
    \A p \in Range(pushed) : p.target \notin LoggedImpossible

ExceptionKinds == { "DivideError", "IntegerOverflow" }

\* The matrix has a target of exception kind k, and every such target ended
\* with an entry of that kind in the group or with a "probably impossible" line.
LogOrPresent(k) ==
    /\ \E t \in 1..Len(testMatrix) : testMatrix[t].exceptionType = k
    /\ \A t \in 1..Len(testMatrix) :
          testMatrix[t].exceptionType = k =>
              \/ \E e \in Range(entries) : e.exceptionType = Some(k)
              \/ t \in LoggedImpossible

\* C10 as stated: a finished DIV run that met no illegal-instruction status
\* and no execute failure has both exception targets, each log-or-present.
C10_DivLogOrPresent ==
    (pc = "done" /\ instr.mnemonic = "DIV" /\ ~illegalInstruction
        /\ ~WasLogged("execute_failed")) =>
            \A k \in ExceptionKinds : LogOrPresent(k)

\* C10 amended: a finished DIV run whose execution context was prepared and
\* that met no illegal-instruction status and no execute failure has both
\* exception targets, each with an entry of its kind or a "probably
\* impossible" line.
C10_DivLogOrPresentPrepared ==
    (pc = "done" /\ instr.mnemonic = "DIV" /\ ~illegalInstruction
        /\ ~WasLogged("execute_failed") /\ ~WasLogged("prepare_failed")) =>
            \A k \in ExceptionKinds : LogOrPresent(k)

\* A finished DIV run with a DivideError entry in the group and the
\* IntegerOverflow target logged as probably impossible.
C10_Witness ==
    /\ pc = "done"
    /\ instr.mnemonic = "DIV"
    /\ ~illegalInstruction
    /\ ~WasLogged("execute_failed")
    /\ ~WasLogged("prepare_failed")
    /\ \E e \in Range(entries) : e.exceptionType = Some("DivideError")
    /\ \E t \in LoggedImpossible : testMatrix[t].exceptionType = "IntegerOverflow"

\* The exception kind of a divide status.
KindOfStatus(status) ==
    IF status = "ExceptionIntDivideError" THEN "DivideError" ELSE "IntegerOverflow"

DivideStatuses == { "ExceptionIntDivideError", "ExceptionIntOverflow" }

\* A step that completes one pass of the while body with execute() true.
IterationStep == pc = "loop" /\ iteration' = iteration + 1

\* C11: on a divide-error or overflow status a hit is declared exactly when the
\* mapped kind equals the target's exception, and the entry then records that
\* kind; otherwise nothing is pushed by that iteration, it counts toward the
\* budget and the loop retries unless the budget ends it. A Success status
\* never gives an entry for an exception target.
C11_ExceptionHitIffKindMatches ==
    [][ /\ (IterationStep /\ lastStatus' \in DivideStatuses) =>
            /\ hasExpected' <=> (KindOfStatus(lastStatus') = testBitInfo.exceptionType)
            /\ hasExpected' => testEntry'.exceptionType = Some(KindOfStatus(lastStatus'))
            /\ ~hasExpected' =>
                  /\ pushed' = pushed
                  /\ entries' = entries
                  /\ pc' = (IF iteration' > maxAttempts(instr) THEN "after" ELSE "loop")
        /\ (IterationStep /\ lastStatus' = "Success" /\ testBitInfo.exceptionType # "None") =>
            ~hasExpected'
        /\ (pushed' # pushed /\ testBitInfo.exceptionType # "None") =>
            /\ lastStatus \in DivideStatuses
            /\ testEntry.exceptionType = Some(testBitInfo.exceptionType)
            /\ KindOfStatus(lastStatus) = testBitInfo.exceptionType
      ]_vars

\* An entry pushed for the IntegerOverflow target on an overflow status, after
\* an earlier iteration of that target raised another status.
C11_Witness ==
    \E p \in Range(pushed) :
        /\ testMatrix[p.target].exceptionType = "IntegerOverflow"
        /\ p.status = "ExceptionIntOverflow"
        /\ p.iteration >= 2
        /\ p.entry.exceptionType = Some("IntegerOverflow")

\* C12: a status that is none of Success, ExceptionIntDivideError,
\* ExceptionIntOverflow, IllegalInstruction is fatal for the encoding: the
\* iteration gives no entry and no further target is attempted.
C12_OtherStatusIsFatal ==
    /\ \A p \in Range(pushed) : p.status # "Other"
    /\ lastStatus = "Other" => pc \in { "dedup", "done" }

\* C13: once an execution returned IllegalInstruction, the search leaves the
\* loop, the illegal flag of the group gets set, nothing more is pushed, no
\* further execute() call is made, and the group is never added to testGroups,
\* also when earlier targets had produced entries.
C13_IllegalDiscardsGroup ==
    [][ /\ lastStatus' = "IllegalInstruction" =>
            /\ pc' \in { "after", "dedup", "done", "collected" }
            /\ pc' # "after" => illegalInstruction'
            /\ testGroups' = << >>
        /\ lastStatus = "IllegalInstruction" =>
            /\ lastStatus' = lastStatus
            /\ execCalls' = execCalls
            /\ pushed' = pushed
            /\ testGroups' = testGroups
      ]_vars

\* A run in which an earlier target was witnessed, a later execution was
\* illegal, and the worker is past its push.
C13_Witness ==
    /\ pc = "collected"
    /\ lastStatus = "IllegalInstruction"
    /\ Len(pushed) >= 1
    /\ Len(entries) >= 1
    /\ illegalInstruction
    /\ testGroups = << >>

\* ---------------------------------------------------------------------------
\* generateInstrTests: failures, collection, order, determinism
\* ---------------------------------------------------------------------------
Joined == corpus # << >> /\ mainPc # "parallel"

\* The encodings whose group the lambda pushes.
Surviving == { k \in 1..Len(runs) : runs[k].done /\ Survives(runs[k].group) }

Holds(groups, g) == \E j \in 1..Len(groups) : groups[j] = g

\* C14: when execute() returns false on the at-th call of an encoding, that call
\* is the encoding's last and its target the last attempted; when the context
\* cannot be constructed there is no call and no target at all; every encoding
\* of the corpus is still processed, and the groups that survive (the partial
\* group of a failed encoding included) are bucketed and written to the file.
C14_FailureAbandonsEncodingOnly ==
    /\ \A k \in 1..Len(runs) : runs[k].done =>
          /\ faults[k].kind = "prepare" =>
                /\ runs[k].ended = "prepare_failed"
                /\ runs[k].calls = 0 /\ runs[k].lastTarget = 0 /\ runs[k].trace = << >>
          /\ (faults[k].kind = "execute" /\ runs[k].calls >= faults[k].at) =>
                /\ runs[k].ended = "execute_failed"
                /\ runs[k].calls = faults[k].at
                /\ Len(runs[k].trace) = faults[k].at
                /\ runs[k].lastTarget = runs[k].trace[faults[k].at].target
    /\ Joined => curInstr = Len(corpus) /\ \A k \in 1..Len(runs) : runs[k].done
    /\ (Joined /\ mainPc \in { "save", "finished" }) =>
          \A k \in Surviving :
             /\ runs[k].group.instrData.mnemonic \in DOMAIN testGroupsMap
             /\ Holds(testGroupsMap[runs[k].group.instrData.mnemonic], runs[k].group)
    /\ (Joined /\ mainPc = "finished") =>
          \A m \in DOMAIN testGroupsMap : file[m] = serializeTestEntries(testGroupsMap[m])

C14_Witness ==
    /\ Joined /\ mainPc = "finished"
    /\ \E k \in Surviving : runs[k].ended = "execute_failed" /\ runs[k].calls = 2
    /\ \E k \in 1..Len(runs) : runs[k].ended = "prepare_failed"
    /\ \E k \in Surviving : runs[k].ended = "completed"
    /\ \E m \in DOMAIN file : Len(file[m]) >= 4

InPush(w) == worker[w].pc \in { "push", "write", "unlock" }

\* C15: at most one worker is inside push_back at any time, and once
\* forEachParallel has returned testGroups holds the group of every encoding
\* whose group has an entry and is not flagged illegal, once each, and nothing
\* else, whatever the interleaving of the workers was.
C15_ResultListExact ==
    /\ \A w1, w2 \in Workers : (w1 # w2 /\ InPush(w1)) => ~InPush(w2)
    /\ \A w \in Workers : InPush(w) => mtx = w
    /\ Joined =>
          /\ Len(testGroups) = Cardinality(Surviving)
          /\ \A k \in Surviving : Holds(testGroups, runs[k].group)
          /\ \A j \in 1..Len(testGroups) : \E k \in Surviving : testGroups[j] = runs[k].group

C15_Witness ==
    /\ Joined /\ mainPc = "sort"
    /\ Len(testGroups) = 2
    /\ Cardinality(Surviving) < Len(corpus)
    /\ \E k1, k2 \in Surviving :
          k1 < k2 /\ testGroups[1] = runs[k2].group /\ testGroups[2] = runs[k1].group

NonDecreasingWidth(groups) ==
    \A a, b \in 1..Len(groups) : a < b => ~WidthLess(groups[b], groups[a])

\* C16: the groups of every mnemonic that are handed to serializeTestEntries are
\* in non-decreasing order of operand_width, and the file lists them in that
\* order, whatever order they were pushed in.
C16_SerializedInWidthOrder ==
    (Joined /\ mainPc \in { "save", "finished" }) =>
        \A m \in DOMAIN testGroupsMap :
           /\ NonDecreasingWidth(testGroupsMap[m])
           /\ mainPc = "finished" => file[m] = serializeTestEntries(testGroupsMap[m])

C16_Witness ==
    /\ Joined /\ mainPc = "finished"
    /\ \E m \in DOMAIN testGroupsMap :
          /\ Len(testGroupsMap[m]) = 3
          /\ WidthLess(testGroupsMap[m][1], testGroupsMap[m][3])
          /\ testGroupsMap[m][3] = runs[1].group

SameRun(r, ref) == r.trace = ref.trace /\ r.group.entries = ref.entries

RECURSIVE InCorpusOrder(_)
InCorpusOrder(k) ==
    IF k > Len(runs) THEN << >>
    ELSE (IF k \in Surviving THEN << runs[k].group >> ELSE << >>) \o InCorpusOrder(k + 1)

AllEntries(groups) ==
    UNION { { << groups[j].instrData, groups[j].entries[e] >> : e \in 1..Len(groups[j].entries) } :
            j \in 1..Len(groups) }

\* C18: the finished run wrote the entries, and byte for byte the file, that a
\* run with another schedule of the workers (here: one worker, corpus order)
\* writes.
C18_OutputIndependentOfSchedule ==
    (Joined /\ mainPc = "finished") =>
        \A m \in DOMAIN testGroupsMap :
           /\ AllEntries(testGroupsMap[m]) = AllEntries(InCorpusOrder(1))
           /\ file[m] = serializeTestEntries(SortGroups(InCorpusOrder(1)))

\* ---------------------------------------------------------------------------
\* Mnemonic-specific targets
\* ---------------------------------------------------------------------------
FlagTarget(t) == t.exceptionType = "None" /\ t.reg = "FLAGS"

RegTarget(t) == t.exceptionType = "None" /\ t.reg \notin { "FLAGS", "NONE" }

\* The byte of AL in the captured registers of an entry, if any.
AlBytes(e) ==
    { e.outputRegs[key][getRegOffset("AL") + 1] : key \in DOMAIN e.outputRegs \cap { "AL", "RAX" } }

\* C19: the matrix of XOR r, r has no register target that expects 1, no flag
\* target (ZF, 0), (PF, 0) or (SF, 1), and its CF and OF targets expect 0; no
\* entry of the group, whether pushed or collected, records a bit of r as 1,
\* ZF as 0, CF as 1 or OF as 1.
C19_XorSameRegisterAllZero ==
    (instr.mnemonic = "XOR" /\ regDestAndSrcSame(instr)) =>
       /\ \A k \in 1..Len(testMatrix) :
             /\ RegTarget(testMatrix[k]) => testMatrix[k].expectedBitValue = 0
             /\ FlagTarget(testMatrix[k]) =>
                  /\ testMatrix[k].bitPos \in { ZYDIS_CPUFLAG_ZF, ZYDIS_CPUFLAG_PF } =>
                        testMatrix[k].expectedBitValue = 1
                  /\ testMatrix[k].bitPos \in { ZYDIS_CPUFLAG_SF, ZYDIS_CPUFLAG_CF, ZYDIS_CPUFLAG_OF } =>
                        testMatrix[k].expectedBitValue = 0
       /\ \A e \in Range(entries) \cup { p.entry : p \in Range(pushed) }
                   \cup UNION { Range(testGroups[g].entries) : g \in 1..Len(testGroups) } :
             /\ AlBytes(e) \subseteq { 0 }
             /\ e.outputFlags.has =>
                  /\ ZYDIS_CPUFLAG_ZF \in e.outputFlags.val
                  /\ ZYDIS_CPUFLAG_CF \notin e.outputFlags.val
                  /\ ZYDIS_CPUFLAG_OF \notin e.outputFlags.val

\* The group of XOR AL, AL collected: its entries capture AL and the flags, and
\* the matrix has register, CF and OF targets.
C19_Witness ==
    /\ instr = InstrXorAlAl
    /\ pc = "collected"
    /\ Len(testGroups) = 1
    /\ \E e \in Range(testGroups[1].entries) : AlBytes(e) = { 0 } /\ e.outputFlags.has
    /\ \E p \in Range(pushed) :
          /\ FlagTarget(testMatrix[p.target])
          /\ testMatrix[p.target].bitPos = ZYDIS_CPUFLAG_ZF
          /\ p.status = "Success"
    /\ \E k \in 1..Len(testMatrix) : RegTarget(testMatrix[k]) /\ testMatrix[k].bitPos = 7
    /\ \E k \in 1..Len(testMatrix) :
          FlagTarget(testMatrix[k]) /\ testMatrix[k].bitPos = ZYDIS_CPUFLAG_OF

MovImmediate == instr.mnemonic = "MOV" /\ inputIsImmediate(instr) /\ Op(instr, 0).type = "REGISTER"

\* Bit b of the destination register as the entry e captured it.
CapturedBit(e, b) ==
    Bit(e.outputRegs[getRootReg(Op(instr, 0).reg)]
                    [getRegOffset(Op(instr, 0).reg) + (b \div 8) + 1], b % 8)

ImmBitValue(b) == IF ImmBit(Op(instr, 1).imm, b) THEN 1 ELSE 0

\* C20: the matrix of MOV reg, imm has, for every bit b of the destination,
\* exactly one target, and it expects bit b of the immediate; every entry of
\* the group has captured the destination with every bit equal to the
\* immediate's bit.
C20_MovImmediateBits ==
    MovImmediate =>
       /\ \A b \in 0..(ZydisRegisterGetWidth(Op(instr, 0).reg) - 1) :
             /\ Cardinality({ k \in 1..Len(testMatrix) :
                                 /\ RegTarget(testMatrix[k])
                                 /\ testMatrix[k].reg = Op(instr, 0).reg
                                 /\ testMatrix[k].bitPos = b }) = 1
             /\ \A k \in 1..Len(testMatrix) :
                   (RegTarget(testMatrix[k]) /\ testMatrix[k].bitPos = b) =>
                      testMatrix[k].expectedBitValue = ImmBitValue(b)
       /\ \A e \in Range(entries) :
             /\ getRootReg(Op(instr, 0).reg) \in DOMAIN e.outputRegs
             /\ \A b \in 0..(ZydisRegisterGetWidth(Op(instr, 0).reg) - 1) :
                   CapturedBit(e, b) = ImmBitValue(b)

\* ---------------------------------------------------------------------------
\* The matrix generateTestMatrix builds
\* ---------------------------------------------------------------------------
Built == pc = "built"

HasTarget(reg, bitPos, v) ==
    \E k \in 1..Len(testMatrix) : testMatrix[k] = TestBitInfo("None", reg, bitPos, v)

BuiltLea == Built /\ instr.mnemonic = "LEA"

\* C21: for LEA the expect-1 target of bit 0 of the destination is missing
\* exactly when the memory operand is [base + base*1] with displacement zero;
\* every other form, [base + base*scale] with scale 2, 4 or 8 included, has
\* the target (dest, 0, 1).
C21_LeaBitZeroSuppressedOnlyForScaleOne ==
    BuiltLea =>
        (~HasTarget(Op(instr, 0).reg, 0, 1)
            <=> /\ Op(instr, 1).base # "NONE"
                /\ Op(instr, 1).index = Op(instr, 1).base
                /\ Op(instr, 1).scale = 1
                /\ Op(instr, 1).disp = 0)

ScaledIndexOnly ==
    /\ BuiltLea
    /\ Op(instr, 1).base = "NONE"
    /\ Op(instr, 1).index # "NONE"
    /\ Op(instr, 1).scale > 1
    /\ Op(instr, 1).disp = 0

\* C22: for LEA with memory operand [index*scale], no base, scale above 1 and
\* displacement zero, no bit b below log2(scale) has an expect-1 target while
\* each of them has its expect-0 target, and no bit at or above the address
\* width has an expect-1 target.
C22_LeaScaledIndexLowBits ==
    ScaledIndexOnly =>
        \A b \in 0..(ZydisRegisterGetWidth(Op(instr, 0).reg) - 1) :
            /\ (b <= 2 /\ 2^b < Op(instr, 1).scale) =>
                  /\ ~HasTarget(Op(instr, 0).reg, b, 1)
                  /\ HasTarget(Op(instr, 0).reg, b, 0)
            /\ b >= instr.address_width => ~HasTarget(Op(instr, 0).reg, b, 1)

\* LEA RCX, [ECX*8]: bits 3..31 have an expect-1 target, bits 0..2 and 32..63
\* have none.
C22_Witness ==
    /\ ScaledIndexOnly
    /\ instr = Lea("RCX", "NONE", "ECX", 8, 0, 32)
    /\ HasTarget("RCX", 3, 1)
    /\ HasTarget("RCX", 31, 1)
    /\ HasTarget("RCX", 2, 0)
    /\ ~HasTarget("RCX", 2, 1)
    /\ ~HasTarget("RCX", 32, 1)

BuiltBtrImm == Built /\ instr.mnemonic = "BTR" /\ Op(instr, 1).type = "IMMEDIATE"

\* C23: for BTR reg, imm the destination has no expect-1 target for bit
\* (imm mod operand_width), an expect-1 target for every other bit, and an
\* expect-0 target for every bit.
C23_BtrClearedBitNeverExpectedOne ==
    BuiltBtrImm =>
        \A b \in 0..(ZydisRegisterGetWidth(Op(instr, 0).reg) - 1) :
            /\ HasTarget(Op(instr, 0).reg, b, 0)
            /\ HasTarget(Op(instr, 0).reg, b, 1) <=> b # Op(instr, 1).imm % instr.operand_width

\* BTR EAX, 33 clears bit 1.
C23_Witness ==
    /\ BuiltBtrImm
    /\ instr = Btr("EAX", 33)
    /\ ~HasTarget("EAX", 1, 1)
    /\ HasTarget("EAX", 1, 0)
    /\ HasTarget("EAX", 0, 1)
    /\ HasTarget("EAX", 31, 1)

BuiltSetcc ==
    /\ Built
    /\ instr.mnemonic \in SetccMnemonics
    /\ Op(instr, 0).type = "REGISTER"
    /\ ZydisRegisterGetWidth(Op(instr, 0).reg) = 8

\* C24 (as stated): for SETcc with an 8-bit register destination the matrix
\* has both polarities for bit 0 and no target at all for bits 1..7.
C24_SetccOnlyBitZero ==
    BuiltSetcc =>
        /\ HasTarget(Op(instr, 0).reg, 0, 0)
        /\ HasTarget(Op(instr, 0).reg, 0, 1)
        /\ \A b \in 1..7 : \A v \in {0, 1} : ~HasTarget(Op(instr, 0).reg, b, v)

\* C24 (amended): for SETcc with an 8-bit register destination the matrix has
\* both polarities for bit 0, and for each of the bits 1..7 the expect-0
\* target and no expect-1 target.
C24_SetccHighBitsExpectZeroOnly ==
    BuiltSetcc =>
        /\ HasTarget(Op(instr, 0).reg, 0, 0)
        /\ HasTarget(Op(instr, 0).reg, 0, 1)
        /\ \A b \in 1..7 :
              /\ HasTarget(Op(instr, 0).reg, b, 0)
              /\ ~HasTarget(Op(instr, 0).reg, b, 1)

\* SETNBE CH: nine targets, all on CH.
C24_Witness ==
    /\ BuiltSetcc
    /\ instr = Setcc("SETNBE", "CH")
    /\ Len(testMatrix) = 9
    /\ HasTarget("CH", 0, 1)
    /\ HasTarget("CH", 7, 0)

\* The positions of the matrix holding the flag target (FLAGS, i, v).
FlagTargetsAt(i, v) ==
    { k \in 1..Len(testMatrix) : testMatrix[k] = TestBitInfo("None", "FLAGS", i, v) }

\* C30: for every flag bit i, a bit of the always-set-to-0 mask has the one
\* target (FLAGS, i, 0), a bit of the always-set-to-1 mask has the one target
\* (FLAGS, i, 1), only a bit of neither mask has both polarities, and no flag
\* target occurs twice in the matrix.
C30_ForcedFlagsHaveOnePolarity ==
    Built =>
        \A i \in 0..31 :
            /\ i \in getFlagsSet0(instr) =>
                  Cardinality(FlagTargetsAt(i, 0)) = 1 /\ FlagTargetsAt(i, 1) = {}
            /\ i \in getFlagsSet1(instr) =>
                  Cardinality(FlagTargetsAt(i, 1)) = 1 /\ FlagTargetsAt(i, 0) = {}
            /\ (FlagTargetsAt(i, 0) # {} /\ FlagTargetsAt(i, 1) # {}) =>
                  i \notin getFlagsSet0(instr) \cup getFlagsSet1(instr)
            /\ \A v \in {0, 1} : Cardinality(FlagTargetsAt(i, v)) <= 1

\* PTEST XMM0, XMM1: ZF is modified and has both polarities, OF is forced to
\* zero and has the expect-0 target only.
C30_Witness ==
    /\ Built
    /\ instr = InstrPtest
    /\ ZYDIS_CPUFLAG_OF \in getFlagsSet0(instr)
    /\ FlagTargetsAt(ZYDIS_CPUFLAG_OF, 0) # {}
    /\ FlagTargetsAt(ZYDIS_CPUFLAG_OF, 1) = {}
    /\ FlagTargetsAt(ZYDIS_CPUFLAG_ZF, 0) # {}
    /\ FlagTargetsAt(ZYDIS_CPUFLAG_ZF, 1) # {}

\* ---------------------------------------------------------------------------
\* The context handed to execute()
\* ---------------------------------------------------------------------------
\* Bit bitPos of register reg in the context c.
CtxBit(c, reg, bitPos) ==
    Bit(getRegBytes(c, getRootReg(reg))[getRegOffset(reg) + (bitPos \div 8) + 1], bitPos % 8)

\* The context c holds the value a reset for target t leaves: the complement of
\* the expected bit in a register target, all six status flags or none of them
\* for a flag target.
Disagrees(c, t) ==
    CASE FlagTarget(t) ->
            c.eflags \cap StatusFlags = (IF t.expectedBitValue = 0 THEN StatusFlags ELSE {})
      [] RegTarget(t) -> CtxBit(c, t.reg, t.bitPos) = 1 - t.expectedBitValue
      [] OTHER -> TRUE

\* C28: in every iteration of the search loop the context handed to execute()
\* disagrees with the target: a register target's bit holds the complement of
\* the expected value, and for a flag target EFLAGS holds the six status flags
\* when 0 is expected and none of them when 1 is expected; staging the inputs
\* does not undo the reset.
C28_ContextDisagreesAtExecute ==
    pc = "loop" =>
        \A prngFlags \in SUBSET getFlagsRead(instr) :
            Disagrees(Staged(prngFlags).ctx, testBitInfo)

\* ---------------------------------------------------------------------------
\* The generator-advance rule of advanceInputs
\* ---------------------------------------------------------------------------
\* Generator k was advanced by the step.
Advanced(k) == inputGenerators'[k] # inputGenerators[k]

\* C29: in each call of advanceInputs the generators are advanced in index
\* order and advancement stops at the first generator whose advance() reports
\* rollover; on every third iteration ((iteration + 1) mod 3 = 0) it stops
\* early whether or not a rollover occurred.
C29_AdvanceStopsAtFirstRollover ==
    [][pc = "advance" =>
          /\ \A k \in 1..Len(inputGenerators) :
                (Advanced(k) /\ GenRolledOver(inputGenerators[k])) =>
                    \A j \in (k + 1)..Len(inputGenerators) : ~Advanced(j)
          /\ ((iteration + 1) % 3 = 0 /\ Len(inputGenerators) >= 2) =>
                ~Advanced(Len(inputGenerators))]_vars

\* ---------------------------------------------------------------------------
\* The lines serializeTestEntries writes
\* ---------------------------------------------------------------------------
\* The entry lines of the files written.
FileLines == UNION { { file[m][n] : n \in 1..Len(file[m]) } : m \in DOMAIN file }

EntryLines == { line \in FileLines : line[1] = Lit(" in:") }

\* Where the kinds of tokens named occur in a line.
TokensOf(line, kinds) == { k \in 1..Len(line) : line[k].kind \in kinds }

\* The positions of the input part of an entry line: after " in:", before "out:".
InputPart(line) ==
    { k \in 2..Len(line) : \A j \in 1..k : line[j] # Lit("out:") }

\* C25: every entry line written is ' in:<INPUTS>|out:<OUTPUTS>', optionally
\* followed by '|exception:<EXC>': the separator '|' stands immediately before
\* 'out:' also when the entry has no input register; within INPUTS and OUTPUTS
\* the items are separated by ',' and the register items come before the flags
\* item.
C25_EntryLineFormat ==
    \A line \in EntryLines :
        /\ \E k \in 2..Len(line) : line[k] = Lit("out:") /\ line[k - 1] = Lit("|")
        /\ \A k \in TokensOf(line, {"flags"}) :
              /\ \A j \in TokensOf(line, {"reg"}) :
                    (j \in InputPart(line) <=> k \in InputPart(line)) => j < k
              /\ line[k - 1] \in { Lit(","), Lit(" in:"), Lit("out:") }
        /\ \A k \in TokensOf(line, {"reg"}) :
              line[k - 1] \in { Lit(","), Lit(" in:"), Lit("out:") }

\* ---------------------------------------------------------------------------
\* main and the files that already exist
\* ---------------------------------------------------------------------------
\* The step is the call of generateInstrTests for a mnemonic whose file exists.
CallOnExisting ==
    /\ mainPc = "main"
    /\ tableIdx <= Len(Calls)
    /\ tableIdx' = tableIdx + 1
    /\ Calls[tableIdx] \in DOMAIN file

\* The call built no encodings, ran nothing and left the files as they were.
NothingDone == generated' = generated /\ file' = file

\* C26 (as stated): a call of generateInstrTests for a mnemonic whose file
\* testdata/<mnemonic>.txt exists builds no encodings, runs no execution and
\* leaves the file unchanged, so that re-running the program is idempotent for
\* every mnemonic whose file was written.
C26_ExistingFileSkipsGeneration == [][CallOnExisting => NothingDone]_vars

\* C26 (amended): in a build without _DEBUG, a call of generateInstrTests for a
\* mnemonic whose file exists builds no encodings, runs no execution and
\* leaves the file unchanged.
C26_ExistingFileSkipsGenerationInRelease ==
    [][(CallOnExisting /\ ~debug) => NothingDone]_vars

\* A release run has passed SHL, whose file existed, without generating it,
\* and has generated AAA, whose file did not exist.
C26_Witness ==
    /\ ~debug
    /\ mainPc = "finished"
    /\ "SHL" \in DOMAIN file
    /\ file["SHL"] = WrittenFile("SHL", 1)
    /\ "SHL" \notin Range(generated)
    /\ "AAA" \in Range(generated)
    /\ "AAA" \in DOMAIN file

ExcludedCategories == { "control-transfer", "io", "privileged", "string", "stack" }

\* C27: no mnemonic of the table that drives main's loop names a
\* control-transfer, I/O, privileged, string or stack-manipulating
\* instruction, so main never generates tests for one.
C27_TableExcludesUnsafeMnemonics ==
    /\ \A k \in 1..Len(mnemonics) : Category(mnemonics[k]) \notin ExcludedCategories
    /\ \A k \in 1..Len(generated) : Category(generated[k]) \notin ExcludedCategories

\* Some operand of the encoding, at any index, is an immediate.
HasImmediateOperand ==
    \E k \in 0..(instr.operand_count - 1) : Op(instr, k).type = "IMMEDIATE"

\* C31: the matrix of an encoding with an immediate operand at any operand
\* index, operand 2 of a three-operand form included, is built with
\* input_is_immediate true and holds no modified flag bit in both polarities.
C31_AnyImmediateSuppressesFlagPairs ==
    (Built /\ HasImmediateOperand) =>
        /\ inputIsImmediate(instr)
        /\ \A i \in getFlagsModified(instr) :
              ~(FlagTargetsAt(i, 0) # {} /\ FlagTargetsAt(i, 1) # {})

\* The registers of the register operands written by the encoding, IP and the
\* flags registers left out.
WrittenOperandRegs ==
    { Op(instr, k).reg : k \in
        { j \in 0..(instr.operand_count - 1) :
            /\ Op(instr, j).type = "REGISTER"
            /\ "WRITE" \in Op(instr, j).actions
            /\ ~isRegFiltered(Op(instr, j).reg) } }

\* The registers named by the register targets of the matrix.
TargetRegs == { testMatrix[k].reg : k \in { j \in 1..Len(testMatrix) : RegTarget(testMatrix[j]) } }

\* The bit positions of reg that have a target in the matrix.
TargetBits(reg) ==
    { testMatrix[k].bitPos : k \in
        { j \in 1..Len(testMatrix) : RegTarget(testMatrix[j]) /\ testMatrix[j].reg = reg } }

\* C32: regs-written is the set of roots of the written register operands,
\* each root once, and the matrix enumerates the bit positions 0..W-1 of each
\* written root, W being the root's width (64 positions for EAX).
C32_MatrixEnumeratesWrittenRoots ==
    Built =>
        /\ TargetRegs = { ZydisRegisterGetLargestEnclosing(r) : r \in WrittenOperandRegs }
        /\ \A r \in TargetRegs : TargetBits(r) = 0..(ZydisRegisterGetWidth(r) - 1)

\* C32 (amended): regs-written is the set of the written register operands
\* themselves, each once, ordered by non-increasing width, and the matrix
\* enumerates the bit positions 0..W-1 of each written register, W being the
\* width of that register as decoded (32 positions for EAX).
C32_MatrixEnumeratesWrittenOperands ==
    Built =>
        /\ TargetRegs = WrittenOperandRegs
        /\ Range(getRegsModified(instr)) = WrittenOperandRegs
        /\ Len(getRegsModified(instr)) = Cardinality(WrittenOperandRegs)
        /\ \A k \in 1..(Len(getRegsModified(instr)) - 1) :
              ZydisRegisterGetWidth(getRegsModified(instr)[k])
                  >= ZydisRegisterGetWidth(getRegsModified(instr)[k + 1])
        /\ \A r \in TargetRegs : TargetBits(r) = 0..(ZydisRegisterGetWidth(r) - 1)

\* The matrix of MOV EAX, imm32 has been built: it has a target for bit 31 of
\* EAX and none for RAX.
C32_Witness ==
    /\ Built
    /\ instr = InstrMovEaxImm
    /\ 31 \in TargetBits("EAX")
    /\ "RAX" \notin TargetRegs

\* The registers the encoding touches: every register operand, and the base
\* and index of the memory operands.
TouchedRegs ==
    LET idx == 0..(instr.operand_count - 1)
    IN { Op(instr, k).reg : k \in { j \in idx : Op(instr, j).type = "REGISTER" } }
       \cup ({ Op(instr, k).base : k \in { j \in idx : Op(instr, j).type = "MEMORY" } }
             \ {"NONE"})
       \cup ({ Op(instr, k).index : k \in { j \in idx : Op(instr, j).type = "MEMORY" } }
             \ {"NONE"})

\* AH and CH stand for AX and CX.
Promoted(r) == IF r = "AH" THEN "AX" ELSE IF r = "CH" THEN "CX" ELSE r

\* regsRead holds, for each root of a register of S, one alias and no other
\* register: a promoted register of S of the widest width seen for that root.
OneAliasPerRoot(regsRead, S) ==
    /\ Len(regsRead) = Cardinality({ getRootReg(r) : r \in S })
    /\ \A root \in { getRootReg(r) : r \in S } :
          \E k \in 1..Len(regsRead) :
              /\ getRootReg(regsRead[k]) = root
              /\ regsRead[k] \in { Promoted(r) : r \in { x \in S : getRootReg(x) = root } }
              /\ \A r \in { x \in S : getRootReg(x) = root } :
                    ZydisRegisterGetWidth(Promoted(r)) <= ZydisRegisterGetWidth(regsRead[k])

NonIncreasingWidth(regsRead) ==
    \A k \in 1..(Len(regsRead) - 1) :
        ZydisRegisterGetWidth(regsRead[k]) >= ZydisRegisterGetWidth(regsRead[k + 1])

FilteredOperandRegs ==
    { Op(instr, k).reg : k \in
        { j \in 0..(instr.operand_count - 1) :
            Op(instr, j).type = "REGISTER" /\ isRegFiltered(Op(instr, j).reg) } }

InMatrix(reg, bitPos, v) ==
    \E k \in 1..Len(testMatrix) : testMatrix[k] = TestBitInfo("None", reg, bitPos, v)

\* C34: for ADD r,r, SUB r,r and XOR r,r every register-bit or flag target
\* left out of the matrix is a value the instruction produces for no input:
\* whatever bit of the destination or modified flag an execution produces, the
\* matrix holds the target for it.
C34_PrunedTargetsAreImpossible ==
    pc = "executed" =>
        /\ \A b \in 0..7 : InMatrix("AL", b, CtxBit(ctx, "AL", b))
        /\ \A i \in getFlagsModified(instr) :
              InMatrix("FLAGS", i, IF i \in ctx.eflags THEN 1 ELSE 0)

\* The context and the entry are those the next execute() call is made with.
AtExecute == pc \in {"advance", "advanced"} /\ iteration > 0

\* C35: at the execute() call that produces a pushed entry, the context holds
\* in every key register of input_regs exactly the bytes recorded for it, and
\* its EFLAGS value is input_flags with TF cleared, 0 when input_flags is
\* absent.  Every entry that is pushed is the entry staged for such a call.
C35_RecordedInputsAreContextAtExecute ==
    AtExecute =>
        /\ \A r \in DOMAIN testEntry.inputRegs :
              testEntry.inputRegs[r] = getRegBytes(ctx, r)
        /\ ctx.eflags = IF testEntry.inputFlags.has
                        THEN testEntry.inputFlags.val \ {ZYDIS_CPUFLAG_TF}
                        ELSE {}

\* The pushes made for a flag target other than IF after an execution that
\* reported Success.
FlagPushes ==
    { k \in 1..Len(pushed) :
        /\ FlagTarget(testMatrix[pushed[k].target])
        /\ testMatrix[pushed[k].target].bitPos # ZYDIS_CPUFLAG_IF
        /\ pushed[k].status = "Success" }

\* C36: every entry pushed for a flag target (None, FLAGS, i, v), i not the IF
\* bit, has output_flags present with bit i equal to v, also when the
\* instruction only forces flags to 0 or 1 and its modified mask is empty.
C36_FlagHitRecordsOutputFlags ==
    \A k \in FlagPushes :
        /\ pushed[k].entry.outputFlags.has
        /\ (testMatrix[pushed[k].target].bitPos \in pushed[k].entry.outputFlags.val)
             = (testMatrix[pushed[k].target].expectedBitValue = 1)

\* The entries in the order of their push_back.
PushedEntries == [k \in 1..Len(pushed) |-> pushed[k].entry]

\* C37: when execute() returned false, the entries pushed for the targets
\* witnessed before are kept; the group is deduplicated like any other, is
\* added to the result list when it has an entry, and is the plain group
\* record, its illegal flag clear, with nothing that tells it from the group
\* of a run that processed every target.
C37_FailureKeepsPushedEntries ==
    WasLogged("execute_failed") =>
        /\ pc = "dedup" => entries = PushedEntries
        /\ pc \in { "done", "collected" } =>
              /\ entries = UniqueEntries(SortEntries(PushedEntries))
              /\ ~illegalInstruction
        /\ pc = "collected" =>
              testGroups = IF PushedEntries # << >>
                           THEN << InstrTestGroup(instr, entries, FALSE) >>
                           ELSE << >>

\* execute() failed on the third target of MOV AH, imm8 after two targets
\* were witnessed; the group of two entries is in the result list.
C37_Witness ==
    /\ pc = "collected"
    /\ WasLogged("execute_failed")
    /\ instr = InstrMovAhImm
    /\ targetIdx = 3
    /\ Len(pushed) = 2
    /\ Len(testGroups) = 1
    /\ Len(testGroups[1].entries) >= 1
    /\ ~testGroups[1].illegalInstruction

\* testInstruction has returned: every target was processed, or the rest of
\* the matrix was abandoned after an illegal instruction, a failed execute()
\* or a context that could not be prepared.
SearchOver ==
    /\ pc \in { "dedup", "done", "collected" }
    /\ \/ targetIdx > Len(testMatrix)
       \/ illegalInstruction
       \/ WasLogged("execute_failed")
       \/ WasLogged("prepare_failed")

\* The while loop of a target has been left by a hit, an illegal-instruction
\* status or an exhausted budget.
LoopLeft ==
    pc = "after" /\ (hasExpected \/ illegalInstr \/ iteration > maxAttempts(instr))

\* C38: whatever the executions report, the retry loop of each target ends,
\* by a hit, an illegal-instruction status, a failed execute() or an exhausted
\* budget, and the search as a whole ends with every target processed or
\* abandoned.
C38_SearchTerminates ==
    /\ (pc = "loop") ~> (LoopLeft \/ (pc = "dedup" /\ WasLogged("execute_failed")))
    /\ <>SearchOver

\* A run has ended after one target was left by budget exhaustion and a later
\* one by a hit.
C38_Witness ==
    /\ pc = "collected"
    /\ targetIdx > Len(testMatrix)
    /\ LoggedImpossible # {}
    /\ \E k \in 1..Len(pushed) : \E t \in LoggedImpossible : pushed[k].target > t

\* The roots the cleanse loop has written so far.
CleansedRoots ==
    { regsReadBig(instr)[k] : k \in 1..execCalls } \ { r \in Regs : isRegFiltered(r) }

\* C39: the 0xCC scrub of a read root writes width_of(root)/8 bytes, all of
\* them taken from the 0xCC table, and that length is at most the table's 32
\* bytes for every read root, the 512-bit vector registers included.
C39_ScrubWithinTable ==
    pc \in { "cleanse", "cleansed" } =>
        \A reg \in CleansedRoots :
            /\ ZydisRegisterGetWidth(reg) \div 8 <= Len(ccBytes)
            /\ getRegBytes(ctx, reg) = Fill(204, ZydisRegisterGetWidth(reg) \div 8)
====
